---- MODULE Spec2Model ----
(***************************************************************************)
(* Nava: prompt-to-action compiler and execution engine.                   *)
(*                                                                         *)
(*   RetryManager.execute_with_retry   src/scheduler.py                    *)
(*   _run_tasks                        src/nava-cli/cli.py                 *)
(*   execute_task, execute_task_chain  src/nava-cli/task_executor.py       *)
(*                                                                         *)
(* Python values are records carrying their type: hasattr(v, "success") is *)
(* "success" \in DOMAIN v, and truthiness is Truthy(v).                    *)
(***************************************************************************)
EXTENDS Integers, Sequences, FiniteSets, TLC

(***************************************************************************)
(* Bounds of the model.                                                    *)
(***************************************************************************)
MaxRetries == 2
MaxBaseDelay == 2
MaxNoise == 2       \* length of the arbitrary token sequences tried as prompts
MaxDepth == 2       \* nesting depth of the conditional prompts
MaxChain == 2       \* number of tasks of a chain
MaxChunks == 5      \* number of pieces a prompt to split is made of
MaxText == 4        \* number of characters of a text to expand
MaxCalls == 2       \* number of calls of schedule_task
MaxTime == 185      \* seconds of the run loop that are followed
MaxJobTime == 61    \* seconds the longest job body takes
MaxJobs == 1        \* number of jobs registered before the run loop starts

VARIABLES
    \* RetryManager and one call of execute_with_retry
    max_retries,    \* self.max_retries
    base_delay,     \* self.base_delay
    rm_pc,          \* "idle" | "loop" | "sleep" | "returned" | "raised"
    attempt,        \* the loop variable of execute_with_retry
    last_error,     \* the local last_error
    rm_out,         \* the value returned, or the error raised, by the call
    fn_log,         \* outcome of every invocation of task_fn, in order
    sleeps,         \* argument of every asyncio.sleep of the call, in order
    \* one call of execute_task
    it_pc,          \* "ready" | "done"
    it_prompt,      \* the prompt argument
    it_out,         \* the outcome of the call
    it_env,         \* how the session of the call behaves
    \* one run of a chain executor
    executor,           \* "_run_tasks" | "execute_task_chain"
    expanded_tasks,     \* the task strings of the chain, variables expanded
    continue_on_error,  \* the continue_on_error argument
    retries,            \* the retries argument of _run_tasks
    screenshot,         \* whether a screenshot path was given
    json_output,        \* whether a json_output path was given
    ch_pc,              \* where the executor is
    idx,                \* index of the current task in the chain, from 1
    results,            \* the local results
    attempts,           \* every call of execute_task of the run, in order
    session_error,      \* whether the session block raised
    artifact,           \* the JSON document written, or None
    sent,               \* the payloads passed to send_results, in order
    ch_ret,             \* the return value: "pending" | "True" | "False"
    \* one call of _parse_task_chain, a string being the sequence of its
    \* characters
    sp_pc,          \* "off" | "scan" | "done"
    sp_prompt,      \* the prompt argument
    sp_i,           \* position of the next character, from 1
    sp_current,     \* current
    sp_in_url,      \* in_url
    sp_tasks,       \* tasks
    sp_splits,      \* positions of the commas that ended a task, in order
    \* one call of expand_variables, a string being the sequence of its
    \* characters
    ex_pc,          \* "off" | "ready" | "done"
    ex_text,        \* the text argument
    ex_variables,   \* the variables argument: its items in iteration order
    ex_out,         \* the string returned
    \* a ScheduleManager and the schedule library behind it
    sc_installed,   \* whether the schedule package could be imported
    sc_tasks,       \* self.tasks: the job registered under each name
    sc_jobs,        \* the jobs of the library's scheduler (the triggers)
    sc_calls,       \* the calls of schedule_task so far, in order
    \* ScheduleManager.start running in an event loop
    rl_pc,          \* "off" | "check" | "pending" | "job" | "sleep" |
                    \* "exited" | "crashed"
    is_running,     \* self.is_running
    rl_now,         \* the clock, in seconds since the jobs were registered
    rl_fn,          \* per job of the library: "async" | "sync" task_fn
    rl_next,        \* per job of the library: its next_run
    rl_due,         \* the runnable jobs run_pending has still to run
    rl_runs,        \* every invocation of a job by run_pending, in order
    rl_stop,        \* the calls of stop(): whether one came before start(),
                    \* and for the one after it the clock and the
                    \* invocations under way then
    \* main() on its way to the loop of _run_tasks, strings as sequences of
    \* characters
    mn_pc,          \* "off" | "vars" | "split" | "run" | "expanded" | "error"
    mn_load,        \* whether a workflow is loaded (--load) or a prompt given
    mn_vars,        \* args.vars, empty when the option is absent
    mn_variables,   \* variables: its items in iteration order
    mn_tasks,       \* tasks
    mn_expanded     \* expanded_tasks of _run_tasks

retry_vars == <<max_retries, base_delay, rm_pc, attempt, last_error, rm_out,
                fn_log, sleeps>>

interp_vars == <<it_pc, it_prompt, it_out, it_env>>

chain_vars == <<executor, expanded_tasks, continue_on_error, retries, screenshot,
                json_output, ch_pc, idx, results, attempts, session_error,
                artifact, sent, ch_ret>>

split_vars == <<sp_pc, sp_prompt, sp_i, sp_current, sp_in_url, sp_tasks, sp_splits>>

\* the state of the functions that run apart from a chain
expand_vars == <<ex_pc, ex_text, ex_variables, ex_out>>

sched_vars == <<sc_installed, sc_tasks, sc_jobs, sc_calls>>

loop_vars == <<rl_pc, is_running, rl_now, rl_fn, rl_next, rl_due, rl_runs,
               rl_stop>>

main_vars == <<mn_pc, mn_load, mn_vars, mn_variables, mn_tasks, mn_expanded>>

aux_vars == <<split_vars, expand_vars, sched_vars, loop_vars, main_vars>>

core_vars == <<retry_vars, interp_vars, chain_vars>>

vars == <<core_vars, aux_vars>>

(***************************************************************************)
(* Python values.                                                          *)
(***************************************************************************)
None == [type |-> "NoneType"]

\* an object without a success attribute, e.g. a non-empty dict
PlainObject == [type |-> "object"]

\* TaskResult (task_executor.py): error_message defaults to "", data to None
TaskResult(task_type, detail, success, error_message, data) ==
    [type |-> "TaskResult", task_type |-> task_type, detail |-> detail,
     success |-> success, error_message |-> error_message, data |-> data]

\* a detail or message string: its text, and the numbers formatted into it
Text(text) == [text |-> text, nums |-> <<>>]

\* error_message: str = ""
NoMessage == Text(<<>>)

\* an Exception instance; msg is str(e)
Exception(msg) == [type |-> "Exception", msg |-> msg]

\* bool(v): None is falsy; a TaskResult (a dataclass without __bool__ or
\* __len__), an exception and a plain object are truthy
Truthy(v) == v.type # "NoneType"

hasattr(v, name) == name \in DOMAIN v

RECURSIVE Pow2(_)
Pow2(n) == IF n <= 0 THEN 1 ELSE 2 * Pow2(n - 1)

(***************************************************************************)
(* RetryManager.execute_with_retry                                         *)
(***************************************************************************)

\* what one invocation of task_fn can do: raise, or return a value
Raises(e) == [kind |-> "raise", value |-> e]
Returns(v) == [kind |-> "return", value |-> v]

\* the results a wrapped operation returns in the retry scenarios
RetryResults ==
    { None, PlainObject,
      TaskResult("navigate", Text(<<"t">>), TRUE, NoMessage, None),
      TaskResult("unknown", Text(<<"t">>), FALSE, Text(<<"e">>), None) }

\* the outcomes of attempt number a: the error raised by attempt a carries a
RetryOutcomes(a) == {Raises(Exception(a))} \cup {Returns(r) : r \in RetryResults}

\* mutant: a range that holds one attempt at least
AttemptRangeAtLeastOne(m) == 0 .. (IF m < 0 THEN 0 ELSE m)

\* mutant: range(self.max_retries), one attempt short
AttemptRangeShort(m) == 0 .. (m - 1)

\* range(self.max_retries + 1)
AttemptRange(m) == 0 .. m

\* mutant: every returned value ends the loop, None included
ReturnsResultAlways(result) == TRUE

\* mutant: no return inside the loop, every attempt is made
ReturnsResultNever(result) == FALSE

\* mutant: the elif branch is missing, a failed result is tried again
ReturnsResultOnSuccess(result) ==
    Truthy(result) /\ (hasattr(result, "success") => result.success)

\* mutant: the elif branch asks for the success attribute too
ReturnsResultFlagged(result) ==
    Truthy(result) /\ hasattr(result, "success")

\* if result and hasattr(result, 'success') and result.success: return result
\* elif result: return result
ReturnsResult(result) ==
    IF Truthy(result) /\ hasattr(result, "success") /\ result.success
    THEN TRUE
    ELSE Truthy(result)

\* attempt < self.max_retries
SleepsAfter(a, m) == a < m

\* mutant: 2 * attempt for 2 ** attempt
BackoffDelayLinear(base, a) == base * (2 * a)

\* delay = self.base_delay * (2 ** attempt)
BackoffDelay(base, a) == base * Pow2(a)

\* the call: last_error = None, then the first iteration of the loop
RetryEnter ==
    /\ attempt' = 0
    /\ last_error' = None
    /\ rm_out' = None
    /\ fn_log' = <<>>
    /\ sleeps' = <<>>
    /\ rm_pc' = "loop"

\* one iteration of the loop, task_fn ending with outcome o
RetryIteration(o) ==
    /\ rm_pc = "loop"
    /\ attempt \in AttemptRange(max_retries)
    /\ fn_log' = Append(fn_log, o)
    /\ IF o.kind = "return"
       THEN IF ReturnsResult(o.value)
            THEN /\ rm_pc' = "returned"
                 /\ rm_out' = o.value
                 /\ UNCHANGED <<attempt, last_error, sleeps>>
            ELSE /\ attempt' = attempt + 1
                 /\ UNCHANGED <<rm_pc, rm_out, last_error, sleeps>>
       ELSE /\ last_error' = o.value
            /\ IF SleepsAfter(attempt, max_retries)
               THEN /\ sleeps' = Append(sleeps, BackoffDelay(base_delay, attempt))
                    /\ rm_pc' = "sleep"
                    /\ UNCHANGED <<attempt, rm_out>>
               ELSE /\ attempt' = attempt + 1
                    /\ UNCHANGED <<rm_pc, rm_out, sleeps>>
    /\ UNCHANGED <<max_retries, base_delay>>

\* asyncio.sleep(delay) is over: the next iteration
RetryWake ==
    /\ rm_pc = "sleep"
    /\ rm_pc' = "loop"
    /\ attempt' = attempt + 1
    /\ UNCHANGED <<max_retries, base_delay, last_error, rm_out, fn_log, sleeps>>

\* after the loop: if last_error: raise last_error; return None
RetryExhausted ==
    /\ rm_pc = "loop"
    /\ attempt \notin AttemptRange(max_retries)
    /\ IF Truthy(last_error)
       THEN rm_pc' = "raised" /\ rm_out' = last_error
       ELSE rm_pc' = "returned" /\ rm_out' = None
    /\ UNCHANGED <<max_retries, base_delay, attempt, last_error, fn_log, sleeps>>

(***************************************************************************)
(* Task strings.  A prompt is a sequence of items: a token (a maximal run  *)
(* of non-blank characters) or SP (a blank).  Inside a prompt its tokens   *)
(* are separated by one blank each, which the sequence leaves implicit; SP *)
(* items stand for the blanks around it.  A token is a string, and what    *)
(* the code reads of its characters is tabulated below.                    *)
(***************************************************************************)
SP == " "

\* str.strip() of a prompt: the blanks at both ends go
RECURSIVE LStrip(_)
LStrip(p) == IF p # <<>> /\ Head(p) = SP THEN LStrip(Tail(p)) ELSE p

RECURSIVE RStrip(_)
RStrip(p) ==
    IF p # <<>> /\ p[Len(p)] = SP THEN RStrip(SubSeq(p, 1, Len(p) - 1)) ELSE p

\* mutant: the prompt is taken as written
NoStrip(p) == p

strip(p) == RStrip(LStrip(p))

\* re.IGNORECASE / str.lower() on the tokens of the vocabulary
Lower(t) ==
    CASE t = "GO" -> "go"
      [] t = "Links" -> "links"
      [] t = "Every" -> "every"
      [] t = "Hour" -> "hour"
      [] OTHER -> t

\* \w+ : tokens made of letters, digits and underscores only
WordTokens ==
    { "if", "exists", "is", "present", "then", "else", "extract", "from",
      "click", "on", "fill", "with", "type", "in", "into", "press", "wait",
      "for", "to", "disappear", "take", "screenshot", "execute", "go", "GO",
      "search", "Enter", "cats", "links", "Links", "headings", "data", "A",
      "q", "v" }

IsWord(t) == t \in WordTokens

\* ['"]? in front of a group: one leading quote of the token goes
DropLeadQuote(t) ==
    CASE t = "'A'" -> "A'"
      [] t = "'.x'" -> ".x'"
      [] t = "'.y'" -> ".y'"
      [] OTHER -> t

\* ['"]? behind a lazy group: one trailing quote of the token goes
DropTrailQuote(t) ==
    CASE t = "'A'" -> "'A"
      [] t = "A'" -> "A"
      [] t = "'.x'" -> "'.x"
      [] t = ".x'" -> ".x"
      [] t = "'.y'" -> "'.y"
      [] t = ".y'" -> ".y"
      [] OTHER -> t

\* ['"]?(?P<g>.+?)['"]? on the tokens g
Unquote(g) ==
    LET a == [g EXCEPT ![1] = DropLeadQuote(g[1])]
    IN  [a EXCEPT ![Len(a)] = DropTrailQuote(a[Len(a)])]

Min(S) == CHOOSE x \in S : \A y \in S : x <= y

\* a group that did not take part in the match (None)
NoGroup == <<>>

NoMatch == [ok |-> FALSE]

Kw(s, k, w) == k <= Len(s) /\ Lower(s[k]) = w

\* ^\s*KEY\s+(?P<a>.+?)\s+SEP\s+(?P<b>.+)$ : the lazy group ends at the first
\* SEP token that leaves a token on each side
SplitAt(s, key, seps) ==
    LET ks == {k \in 3 .. (Len(s) - 1) : Lower(s[k]) \in seps}
    IN  IF Kw(s, 1, key) /\ ks # {}
        THEN [ok |-> TRUE, a |-> SubSeq(s, 2, Min(ks) - 1),
              b |-> SubSeq(s, Min(ks) + 1, Len(s))]
        ELSE NoMatch

\* _IF_PATTERN
MatchIf(s) ==
    LET n  == Len(s)
        \* positions of "exists then" / "is present then" followed by a token
        es == {k \in 3 .. n :
                 \/ Kw(s, k, "exists") /\ Kw(s, k + 1, "then") /\ k + 2 <= n
                 \/ /\ Kw(s, k, "is") /\ Kw(s, k + 1, "present")
                    /\ Kw(s, k + 2, "then") /\ k + 3 <= n}
        e  == Min(es)
        t  == IF Kw(s, e, "exists") THEN e + 2 ELSE e + 3
        \* the lazy then-group ends at the first "else" with a token behind it
        ls == {k \in (t + 1) .. (n - 1) : Kw(s, k, "else")}
    IN  IF Kw(s, 1, "if") /\ es # {}
        THEN [ok |-> TRUE,
              condition |-> Unquote(SubSeq(s, 2, e - 1)),
              then |-> IF ls = {} THEN SubSeq(s, t, n)
                       ELSE SubSeq(s, t, Min(ls) - 1),
              else |-> IF ls = {} THEN NoGroup
                       ELSE SubSeq(s, Min(ls) + 1, n)]
        ELSE NoMatch

\* _EXTRACT_PATTERN
MatchExtract(s) ==
    LET m == SplitAt(s, "extract", {"from"})
    IN  IF m.ok THEN [ok |-> TRUE, items |-> m.a, url |-> m.b] ELSE NoMatch

\* _CLICK_PATTERN
MatchClick(s) ==
    IF Kw(s, 1, "click") /\ Len(s) >= 2
    THEN [ok |-> TRUE,
          selector |-> Unquote(IF Kw(s, 2, "on") /\ Len(s) >= 3
                               THEN SubSeq(s, 3, Len(s))
                               ELSE SubSeq(s, 2, Len(s)))]
    ELSE NoMatch

\* _FILL_PATTERN
MatchFill(s) ==
    LET m == SplitAt(s, "fill", {"with"})
    IN  IF m.ok THEN [ok |-> TRUE, selector |-> m.a, value |-> m.b] ELSE NoMatch

\* _TYPE_PATTERN
MatchType(s) ==
    LET m == SplitAt(s, "type", {"in", "into"})
    IN  IF m.ok THEN [ok |-> TRUE, text |-> Unquote(m.a), selector |-> m.b]
        ELSE NoMatch

\* _PRESS_PATTERN
MatchPress(s) ==
    IF Kw(s, 1, "press") /\ Len(s) = 2 /\ IsWord(s[2])
    THEN [ok |-> TRUE, key |-> <<s[2]>>]
    ELSE NoMatch

\* _WAIT_PATTERN
MatchWait(s) ==
    LET n == Len(s)
        a == IF Kw(s, 2, "for") /\ n >= 3 THEN 3 ELSE 2
        c == n - 1 >= a + 1 /\ Kw(s, n - 1, "to") /\ IsWord(s[n])
    IN  IF Kw(s, 1, "wait") /\ n >= 2
        THEN [ok |-> TRUE,
              selector |-> Unquote(SubSeq(s, a, IF c THEN n - 2 ELSE n)),
              condition |-> IF c THEN <<s[n]>> ELSE NoGroup]
        ELSE NoMatch

\* _SCREENSHOT_PATTERN
MatchScreenshot(s) ==
    LET a == IF Kw(s, 1, "take") THEN 2 ELSE 1
    IN  IF Kw(s, a, "screenshot")
        THEN [ok |-> TRUE, path |-> SubSeq(s, a + 1, Len(s))]
        ELSE NoMatch

\* _EXECUTE_PATTERN
MatchExecute(s) ==
    IF Kw(s, 1, "execute") /\ Len(s) >= 2
    THEN [ok |-> TRUE, script |-> SubSeq(s, 2, Len(s))]
    ELSE NoMatch

\* _GO_TO_PATTERN
MatchGoTo(s) ==
    IF Kw(s, 1, "go") /\ Kw(s, 2, "to") /\ Len(s) >= 3
    THEN [ok |-> TRUE, target |-> SubSeq(s, 3, Len(s))]
    ELSE NoMatch

\* mutant: the term starts right after "search"
MatchSearchKeepsFor(s) ==
    IF Kw(s, 1, "search") /\ Len(s) >= 2
    THEN [ok |-> TRUE, term |-> SubSeq(s, 2, Len(s))]
    ELSE NoMatch

\* _SEARCH_PATTERN
MatchSearch(s) ==
    IF Kw(s, 1, "search") /\ Len(s) >= 2
    THEN [ok |-> TRUE,
          term |-> IF Kw(s, 2, "for") /\ Len(s) >= 3
                   THEN SubSeq(s, 3, Len(s))
                   ELSE SubSeq(s, 2, Len(s))]
    ELSE NoMatch

(***************************************************************************)
(* The capability provider (BrowserSession and its page).  An environment  *)
(* says which capability raises when called, what the existence probe      *)
(* answers for a selector, and how many elements a DOM query matches.      *)
(***************************************************************************)
Capabilities ==
    { "goto", "click", "type", "press", "wait_for_selector", "screenshot",
      "evaluate" }

ProbeAnswers == { "present", "absent", "raise" }

\* the selectors the existence probe is asked about
ProbeSelectors == { ".x", ".y" }

\* one capability call: what was called, with what arguments (a, and b when
\* there is a second one), and how it ended
Call(cap, a, b, out) == [cap |-> cap, a |-> a, b |-> b, out |-> out]

\* a call of capability cap in environment env: it raises or succeeds
Invoke(env, cap, a, b) ==
    Call(cap, a, b, IF env.fails = cap THEN "raise" ELSE "ok")

\* the error a failing capability raises; its message names the capability
CapabilityError(cap) == Exception(<<cap, "failed">>)

\* a session on which every capability succeeds and the probe finds nothing
QuietSession ==
    [fails |-> "none", probe |-> [x \in ProbeSelectors |-> "absent"], dom |-> 0]

\* session.page.query_selector(condition)
Probe(env, condition) ==
    Call("query_selector", condition, <<>>,
         IF condition[1] \in DOMAIN env.probe
         THEN env.probe[condition[1]] ELSE "absent")

(***************************************************************************)
(* _ensure_url and _build_google_search_url.  A URL that gets a prefix is   *)
(* the prefix followed by the tokens of the raw text (no blank between the *)
(* prefix and the first token).                                            *)
(***************************************************************************)
\* re.match(r"^[a-z]+://", raw, flags=re.IGNORECASE)
HasScheme(raw) == raw[1] \in { "https://a.com", "HTTP://b.org", "ftp://f.net" }

\* raw.startswith("localhost") or raw.startswith("127.0.0.1")
StartsLoopback(raw) ==
    raw[1] \in { "localhost:3000", "localhost.a.com", "127.0.0.1:8000" }

\* mutant: https:// also in front of a loopback target
_ensure_url_https(raw) ==
    IF HasScheme(raw) THEN raw ELSE <<"https://">> \o raw

_ensure_url(raw) ==
    IF HasScheme(raw) THEN raw
    ELSE IF StartsLoopback(raw) THEN <<"http://">> \o raw
    ELSE <<"https://">> \o raw

\* quote_plus of one token: the reserved characters are percent-encoded
QuoteToken(t) ==
    CASE t = "'A'" -> "%27A%27"
      [] t = "'.x'" -> "%27.x%27"
      [] t = "'.y'" -> "%27.y%27"
      [] t = "https://a.com" -> "https%3A%2F%2Fa.com"
      [] t = "HTTP://b.org" -> "HTTP%3A%2F%2Fb.org"
      [] t = "ftp://f.net" -> "ftp%3A%2F%2Ff.net"
      [] t = "localhost:3000" -> "localhost%3A3000"
      [] t = "127.0.0.1:8000" -> "127.0.0.1%3A8000"
      [] t = "Localhost:3000" -> "Localhost%3A3000"
      [] t = "chrome-extension://e" -> "chrome-extension%3A%2F%2Fe"
      [] t = "about:blank" -> "about%3Ablank"
      [] OTHER -> t

\* quote_plus(query): each blank becomes "+", left implicit between tokens
quote_plus(query) == [k \in 1 .. Len(query) |-> QuoteToken(query[k])]

_build_google_search_url(query) ==
    <<"https://www.google.com/search?q=">> \o quote_plus(query) \o <<"&hl=en">>

(***************************************************************************)
(* _extract_data                                                           *)
(***************************************************************************)
ListCap == 50
RowCap == 20

\* kw in query.lower(), read off the tokens of the vocabulary
Contains(query, kw) ==
    \E k \in 1 .. Len(query) :
        LET t == Lower(query[k])
        IN  \/ kw = "link" /\ t \in {"links", "link-text"}
            \/ kw = "heading" /\ t \in {"headings"}
            \/ kw = "image" /\ t \in {"images"}
            \/ kw = "button" /\ t \in {"buttons"}
            \/ kw = "table" /\ t \in {"tables"}
            \/ kw = "text" /\ t \in {"text", "link-text"}

\* an if/elif chain that would test "text" first
RoutineTextFirst(query) ==
    IF Contains(query, "text") THEN "text"
    ELSE IF Contains(query, "link") THEN "link"
    ELSE IF Contains(query, "heading") THEN "heading"
    ELSE IF Contains(query, "image") THEN "image"
    ELSE IF Contains(query, "button") THEN "button"
    ELSE IF Contains(query, "table") THEN "table"
    ELSE "generic"

\* the if/elif chain of _extract_data
Routine(query) ==
    IF Contains(query, "link") THEN "link"
    ELSE IF Contains(query, "heading") THEN "heading"
    ELSE IF Contains(query, "image") THEN "image"
    ELSE IF Contains(query, "button") THEN "button"
    ELSE IF Contains(query, "table") THEN "table"
    ELSE IF Contains(query, "text") THEN "text"
    ELSE "generic"

\* scripts without their .slice calls
ScriptResultUncapped(routine, dom) ==
    IF routine = "table"
    THEN [k \in 1 .. dom |-> [index |-> k - 1, rows |-> dom]]
    ELSE [k \in 1 .. dom |-> [shape |-> routine]]

\* what the routine's script returns on a page with dom matches (for
\* tables: dom tables of dom rows each): .slice(0, 50), or rows .slice(0, 20)
ScriptResult(routine, dom) ==
    IF routine = "table"
    THEN [k \in 1 .. dom |->
             [index |-> k - 1, rows |-> IF dom <= RowCap THEN dom ELSE RowCap]]
    ELSE [k \in 1 .. (IF dom <= ListCap THEN dom ELSE ListCap) |->
             [shape |-> routine]]

_extract_data(env, query) ==
    LET c == Invoke(env, "evaluate", <<Routine(query)>>, <<>>)
        found == ScriptResult(Routine(query), env.dom)
    IN  [calls |-> <<c>>,
         data  |-> IF c.out = "raise"
                   THEN [query |-> query, results |-> <<>>,
                         error |-> CapabilityError("evaluate").msg]
                   ELSE [query |-> query, results |-> found,
                         count |-> Len(found)]]

\* data.get('count', 0)
GetCount(data) == IF "count" \in DOMAIN data THEN data.count ELSE 0

(***************************************************************************)
(* execute_task                                                            *)
(***************************************************************************)
\* the order in which execute_task tries its patterns; the last entry is
\* the search pattern with its default (the whole string as the query)
\* mutant: the search fallback tried before the navigation pattern
PatternOrderSearchFirst ==
    << "if", "extract", "click", "fill", "type", "press", "wait",
       "screenshot", "execute", "search", "go_to" >>

PatternOrder ==
    << "if", "extract", "click", "fill", "type", "press", "wait",
       "screenshot", "execute", "go_to", "search" >>

Match(name, s) ==
    CASE name = "if" -> MatchIf(s)
      [] name = "extract" -> MatchExtract(s)
      [] name = "click" -> MatchClick(s)
      [] name = "fill" -> MatchFill(s)
      [] name = "type" -> MatchType(s)
      [] name = "press" -> MatchPress(s)
      [] name = "wait" -> MatchWait(s)
      [] name = "screenshot" -> MatchScreenshot(s)
      [] name = "execute" -> MatchExecute(s)
      [] name = "go_to" -> MatchGoTo(s)
      [] name = "search" ->
            \* query = search_match.group("term") if search_match else stripped
            IF MatchSearch(s).ok THEN MatchSearch(s) ELSE [ok |-> TRUE, term |-> s]

\* the position in order of the first pattern that matches s
RECURSIVE FirstMatch(_, _, _)
FirstMatch(order, s, i) ==
    IF i >= Len(order) \/ Match(order[i], s).ok THEN i
    ELSE FirstMatch(order, s, i + 1)

\* mutant: the except branch gives the failure the type of the fallback
FailedAsSearch(stripped, e) ==
    TaskResult("search", Text(stripped), FALSE,
               Text(<<"Failed to execute task:">> \o e.msg), None)

\* mutant: the except branch keeps no message
FailedNoMessage(stripped, e) ==
    TaskResult("unknown", Text(stripped), FALSE, NoMessage, None)

\* the except branch of execute_task
Failed(stripped, e) ==
    TaskResult("unknown", Text(stripped), FALSE,
               Text(<<"Failed to execute task:">> \o e.msg), None)

\* the empty-prompt branch of execute_task
EmptyPromptResult ==
    TaskResult("unknown", Text(<<>>), FALSE,
               Text(<<"Prompt must not be empty.">>), None)

\* a handler that makes the one call c and then returns result
OneCall(s, c, result) ==
    [value |-> IF c.out = "raise" THEN Failed(s, CapabilityError(c.cap))
               ELSE result,
     calls |-> <<c>>]

\* mutant: an error of the extractor's query fails the task
HandleExtractPropagates(s, m, env) ==
    LET url == _ensure_url(m.url)
        c   == Invoke(env, "goto", url, <<>>)
        x   == _extract_data(env, m.items)
    IN  IF c.out = "raise"
        THEN [value |-> Failed(s, CapabilityError("goto")), calls |-> <<c>>]
        ELSE IF x.calls[1].out = "raise"
        THEN [value |-> Failed(s, CapabilityError("evaluate")),
              calls |-> <<c>> \o x.calls]
        ELSE [value |-> TaskResult("extract",
                           [text |-> <<"Extracted", "items:">> \o m.items,
                            nums |-> <<GetCount(x.data)>>],
                           TRUE, NoMessage, x.data),
              calls |-> <<c>> \o x.calls]

HandleExtract(s, m, env) ==
    LET url == _ensure_url(m.url)
        c   == Invoke(env, "goto", url, <<>>)
        x   == _extract_data(env, m.items)
    IN  IF c.out = "raise"
        THEN [value |-> Failed(s, CapabilityError("goto")), calls |-> <<c>>]
        ELSE [value |-> TaskResult("extract",
                           [text |-> <<"Extracted", "items:">> \o m.items,
                            nums |-> <<GetCount(x.data)>>],
                           TRUE, NoMessage, x.data),
              calls |-> <<c>> \o x.calls]

HandleClick(s, m, env) ==
    OneCall(s, Invoke(env, "click", m.selector, <<>>),
            TaskResult("click", Text(m.selector), TRUE, NoMessage, None))

HandleFill(s, m, env) ==
    OneCall(s, Invoke(env, "type", m.selector, m.value),
            TaskResult("fill", Text(m.selector \o <<"=">> \o m.value), TRUE,
                       NoMessage, None))

HandleType(s, m, env) ==
    OneCall(s, Invoke(env, "type", m.selector, m.text),
            TaskResult("type", Text(<<"Typed in">> \o m.selector), TRUE,
                       NoMessage, None))

HandlePress(s, m, env) ==
    OneCall(s, Invoke(env, "press", <<"body">>, m.key),
            TaskResult("press", Text(<<"Pressed">> \o m.key), TRUE, NoMessage,
                       None))

HandleWait(s, m, env) ==
    LET hidden == m.condition # NoGroup /\ Lower(m.condition[1]) = "disappear"
    IN  OneCall(s, Invoke(env, "wait_for_selector", m.selector,
                          IF hidden THEN <<"hidden">> ELSE <<>>),
                TaskResult("wait", Text(<<"Waited for">> \o m.selector), TRUE,
                           NoMessage, None))

HandleScreenshot(s, m, env) ==
    LET path == IF m.path # NoGroup THEN m.path ELSE <<"screenshot.png">>
    IN  OneCall(s, Invoke(env, "screenshot", path, <<>>),
                TaskResult("screenshot", Text(path), TRUE, NoMessage, None))

HandleExecute(s, m, env) ==
    OneCall(s, Invoke(env, "evaluate", m.script, <<>>),
            TaskResult("execute_js", Text(<<"Script executed">>), TRUE, NoMessage,
                       [result |-> <<"value of">> \o m.script]))

HandleGoTo(s, m, env) ==
    LET target == _ensure_url(m.target)
    IN  OneCall(s, Invoke(env, "goto", target, <<>>),
                TaskResult("navigate", Text(target), TRUE, NoMessage, None))

HandleSearch(s, m, env) ==
    OneCall(s, Invoke(env, "goto", _build_google_search_url(m.term), <<>>),
            TaskResult("search", Text(m.term), TRUE, NoMessage, None))

\* the handler of pattern name, run on the match m of the stripped prompt s
Handle(name, s, m, env) ==
    CASE name = "extract" -> HandleExtract(s, m, env)
      [] name = "click" -> HandleClick(s, m, env)
      [] name = "fill" -> HandleFill(s, m, env)
      [] name = "type" -> HandleType(s, m, env)
      [] name = "press" -> HandlePress(s, m, env)
      [] name = "wait" -> HandleWait(s, m, env)
      [] name = "screenshot" -> HandleScreenshot(s, m, env)
      [] name = "execute" -> HandleExecute(s, m, env)
      [] name = "go_to" -> HandleGoTo(s, m, env)
      [] name = "search" -> HandleSearch(s, m, env)

\* mutant: a raising probe counts as present
ExistsUnlessAbsent(probe) == probe.out # "absent"

\* exists = query_selector(condition) is not None; a raising probe counts
\* as absent (bare except)
Exists(probe) == probe.out = "present"

\* mutant: the then-action whatever the probe said
ActionToExecuteThenAlways(exists, m) == m.then

\* action_to_execute = then_action if exists else (else_action or "")
ActionToExecute(exists, m) == IF exists THEN m.then ELSE m.else

\* mutant: a conditional without action reported as a failure
NeutralResultFailed(exists) ==
    TaskResult("unknown",
               Text(<<"Condition", IF exists THEN "true," ELSE "false,",
                      "no action executed">>),
               FALSE, NoMessage, None)

\* the result of a conditional none of whose branches ran
NeutralResult(exists) ==
    TaskResult("unknown",
               Text(<<"Condition", IF exists THEN "true," ELSE "false,",
                      "no action executed">>),
               TRUE, NoMessage, None)

\* execute_task(prompt, session) with the session behaving as env.  Every
\* path of the function ends in a return statement (the body is inside
\* try/except Exception), so the outcome has kind "return"; value is the
\* TaskResult, calls the capability calls made, in order, and tried the
\* patterns tried by the outermost call, in order.
RECURSIVE execute_task(_, _)
execute_task(prompt, env) ==
    LET stripped == strip(prompt)
        i == FirstMatch(PatternOrder, stripped, 1)
        name == PatternOrder[i]
        m == Match(name, stripped)
        tried == SubSeq(PatternOrder, 1, i)
    IN  IF stripped = <<>>
        THEN [kind |-> "return", value |-> EmptyPromptResult, calls |-> <<>>,
              tried |-> <<>>]
        ELSE IF name = "if"
        THEN LET probe  == Probe(env, m.condition)
                 exists == Exists(probe)
                 action == ActionToExecute(exists, m)
             IN  IF action # <<>>
                 THEN LET r == execute_task(action, env)
                      IN  [kind |-> "return", value |-> r.value,
                           calls |-> <<probe>> \o r.calls, tried |-> tried]
                 ELSE [kind |-> "return", value |-> NeutralResult(exists),
                       calls |-> <<probe>>, tried |-> tried]
        ELSE LET h == Handle(name, stripped, m, env)
             IN  [kind |-> "return", value |-> h.value, calls |-> h.calls,
                  tried |-> tried]

(***************************************************************************)
(* The retry manager on its own: any operation, any outcome per attempt.   *)
(***************************************************************************)
execute_with_retry ==
    /\ rm_pc = "idle"
    /\ RetryEnter
    /\ UNCHANGED <<max_retries, base_delay>>
    /\ UNCHANGED <<interp_vars, chain_vars, aux_vars>>

RetryAttempt ==
    /\ \E o \in RetryOutcomes(attempt) : RetryIteration(o)
    /\ UNCHANGED <<interp_vars, chain_vars, aux_vars>>

\* a call of execute_with_retry not yet made
RetryIdle ==
    /\ rm_pc = "idle"
    /\ attempt = 0
    /\ last_error = None
    /\ rm_out = None
    /\ fn_log = <<>>
    /\ sleeps = <<>>

\* no call of execute_task in this scenario
InterpIdle ==
    /\ it_pc = "off"
    /\ it_prompt = <<>>
    /\ it_out = [kind |-> "none"]
    /\ it_env = QuietSession

\* no chain executor in this scenario
ChainIdle ==
    /\ executor = "none"
    /\ expanded_tasks = <<>>
    /\ continue_on_error = FALSE
    /\ retries = 1
    /\ screenshot = FALSE
    /\ json_output = FALSE
    /\ ch_pc = "off"
    /\ idx = 1
    /\ results = <<>>
    /\ attempts = <<>>
    /\ session_error = FALSE
    /\ artifact = None
    /\ sent = <<>>
    /\ ch_ret = "pending"

\* no call of _parse_task_chain in this scenario
SplitIdle ==
    /\ sp_pc = "off"
    /\ sp_prompt = <<>>
    /\ sp_i = 1
    /\ sp_current = <<>>
    /\ sp_in_url = FALSE
    /\ sp_tasks = <<>>
    /\ sp_splits = <<>>

\* no call of expand_variables in this scenario
ExpandIdle ==
    /\ ex_pc = "off"
    /\ ex_text = <<>>
    /\ ex_variables = <<>>
    /\ ex_out = <<>>

\* the names tasks are scheduled under
TaskNames == { "t1", "t2" }

\* no job: None, or no entry in self.tasks
NoJob == [unit |-> "none", interval |-> 0, start_day |-> "", at_time |-> ""]

\* no ScheduleManager in this scenario
SchedIdle ==
    /\ sc_installed = FALSE
    /\ sc_tasks = [n \in TaskNames |-> NoJob]
    /\ sc_jobs = <<>>
    /\ sc_calls = <<>>

\* stop() was not called
NotStopped == [called |-> FALSE, at |-> 0, active |-> {}, early |-> FALSE]

\* start() is not called in this scenario
LoopIdle ==
    /\ rl_pc = "off"
    /\ is_running = FALSE
    /\ rl_now = 0
    /\ rl_fn = <<>>
    /\ rl_next = <<>>
    /\ rl_due = <<>>
    /\ rl_runs = <<>>
    /\ rl_stop = NotStopped

\* main() is not run in this scenario
MainIdle ==
    /\ mn_pc = "off"
    /\ mn_load = FALSE
    /\ mn_vars = <<>>
    /\ mn_variables = <<>>
    /\ mn_tasks = <<>>
    /\ mn_expanded = <<>>

AuxIdle == SplitIdle /\ ExpandIdle /\ SchedIdle /\ LoopIdle /\ MainIdle

\* no retry manager, interpreter or chain executor in this scenario
CoreIdle ==
    /\ max_retries = 0
    /\ base_delay = 1
    /\ RetryIdle
    /\ InterpIdle
    /\ ChainIdle

InitRetry ==
    /\ max_retries \in -1 .. MaxRetries
    /\ base_delay \in 1 .. MaxBaseDelay
    /\ RetryIdle
    /\ InterpIdle
    /\ ChainIdle
    /\ AuxIdle

RetrySleepOver == RetryWake /\ UNCHANGED <<interp_vars, chain_vars, aux_vars>>

RetryLoopOver == RetryExhausted /\ UNCHANGED <<interp_vars, chain_vars, aux_vars>>

NextRetry ==
    \/ execute_with_retry
    \/ RetryAttempt
    \/ RetrySleepOver
    \/ RetryLoopOver

SpecRetry == InitRetry /\ [][NextRetry]_vars

(***************************************************************************)
(* The interpreter on its own: one call of execute_task on a prompt of a   *)
(* bounded set, the session behaving in any of the environments.           *)
(***************************************************************************)
\* the environments: any one capability failing or none, any answer of the
\* probe per selector, and a page with few or many matches
DomCounts == { 0, 2, ListCap + 1 }

AllAbsent == [x \in ProbeSelectors |-> "absent"]

Envs ==
    { [fails |-> f, probe |-> p, dom |-> 2] :
        f \in Capabilities \cup {"none"}, p \in [ProbeSelectors -> ProbeAnswers] }
    \cup
    { [fails |-> f, probe |-> AllAbsent, dom |-> d] :
        f \in {"none", "evaluate"}, d \in DomCounts }

\* all sequences over S of length 1 .. n
RECURSIVE SeqsUpTo(_, _)
SeqsUpTo(S, n) ==
    IF n = 0 THEN {}
    ELSE {<<x>> : x \in S}
         \cup SeqsUpTo(S, n - 1)
         \cup {Append(q, x) : q \in SeqsUpTo(S, n - 1), x \in S}

NoiseVocabulary ==
    { "click", "on", "go", "to", "search", "for", "press", "wait", "take",
      "screenshot", "Enter", "'A'" }

BlankPrompts == { <<>>, <<SP>>, <<SP, SP>> }

SimplePrompts ==
    { <<"go", "to", "a.com">>, <<"go", "to", "https://a.com">>,
      <<"go", "to", "localhost:3000">>, <<"go", "to", "127.0.0.1:8000">>,
      <<"GO", "to", "a.com">>, <<"go", "to", "HTTP://b.org">>,
      <<"go", "to", "ftp://f.net">>, <<"go", "to", "localhost.a.com">>,
      <<"go", "to", "chrome-extension://e">>, <<"go", "to", "about:blank">>,
      <<"go", "to", "Localhost:3000">>,
      <<"extract", "links", "from", "chrome-extension://e">>,
      <<"go", "to", "a.com", "q">>,
      <<"search", "for", "cats">>, <<"search", "cats">>, <<"cats">>,
      <<"'A'", "q">>, <<"https://a.com">>,
      <<"extract", "links", "from", "a.com">>,
      <<"extract", "Links", "from", "https://a.com">>,
      <<"extract", "headings", "from", "localhost:3000">>,
      <<"extract", "images", "from", "a.com">>,
      <<"extract", "buttons", "from", "a.com">>,
      <<"extract", "tables", "from", "a.com">>,
      <<"extract", "text", "from", "a.com">>,
      <<"extract", "link-text", "from", "a.com">>,
      <<"extract", "headings", "links", "from", "a.com">>,
      <<"extract", "data", "from", "a.com">>,
      <<"extract", "data", "from", "links", "from", "a.com">>,
      <<"extract", "from", "a.com">>,
      <<"click", ".y", "q">>, <<"click", "on", "'.x'">>,
      <<"fill", "q", "with", "v">>, <<"fill", "q", "with", "v", "with", "v">>,
      <<"fill", "with", "v">>,
      <<"type", "'A'", "into", "q">>, <<"type", "v", "in", "q">>,
      <<"type", "in", "q">>,
      <<"press", "Enter", "q">>, <<"press", ".y">>,
      <<"wait", "for", "'.x'">>, <<"wait", "'.x'">>,
      <<"wait", "for", "'.x'", "to", "disappear">>,
      <<"wait", "for", ".y", "to", "exists">>,
      <<"wait", "for", "to", "disappear">>,
      <<"screenshot", "q">>, <<"take", "screenshot", "q">>, <<"take", "q">>,
      <<"execute", "q">>, <<"execute">>, <<"execute", "q", "v">>,
      <<"if", "'.x'", "exists">>, <<"if", "'.x'", "exists", "then">>,
      <<"if", "exists", "then", "click", "'A'">>,
      <<"if", "'.x'", "is", "present", "then", "click", "'A'">>,
      <<"if", "'.x'", "exists", "then", "click", "'A'", "else">>,
      <<SP, "go", "to", "a.com", SP>>, <<SP, "click", "'A'">> }

\* the tasks used as branches of the conditional prompts
BranchTasks ==
    { <<"click", "'A'">>, <<"go", "to", "a.com">> }

ConditionTokens == { "'.x'", ".y" }

IfThen(c, t) == <<"if", c, "exists", "then">> \o t

IfThenElse(c, t, e) == IfThen(c, t) \o <<"else">> \o e

\* conditional prompts nested to depth d
RECURSIVE ConditionalPrompts(_)
ConditionalPrompts(d) ==
    IF d = 0 THEN BranchTasks
    ELSE LET inner == ConditionalPrompts(d - 1)
         IN  BranchTasks
             \cup {IfThen(c, t) : c \in ConditionTokens, t \in inner}
             \cup UNION {{IfThenElse(c, t, e) : c \in ConditionTokens, e \in inner} :
                           t \in BranchTasks}

InterpPrompts ==
    BlankPrompts \cup SimplePrompts \cup SeqsUpTo(NoiseVocabulary, MaxNoise)
        \cup ConditionalPrompts(MaxDepth)

\* await execute_task(prompt, session)
ExecuteTaskCall ==
    /\ it_pc = "ready"
    /\ \E env \in Envs :
          /\ it_env' = env
          /\ it_out' = execute_task(it_prompt, env)
    /\ it_pc' = "done"
    /\ UNCHANGED it_prompt
    /\ UNCHANGED <<retry_vars, chain_vars, aux_vars>>

InitInterp ==
    /\ it_pc = "ready"
    /\ it_prompt \in InterpPrompts
    /\ it_out = [kind |-> "none"]
    /\ it_env = QuietSession
    /\ max_retries = 0
    /\ base_delay = 1
    /\ RetryIdle
    /\ ChainIdle
    /\ AuxIdle

NextInterp == ExecuteTaskCall

SpecInterp == InitInterp /\ [][NextInterp]_vars

(***************************************************************************)
(* The chain executors: _run_tasks (cli.py) and execute_task_chain         *)
(* (task_executor.py).                                                     *)
(***************************************************************************)
\* mutant: any() for all()
AnySucceeded(rs) == \E k \in 1 .. Len(rs) : rs[k].success

\* all(r.success for r in results)
AllSucceeded(rs) == \A k \in 1 .. Len(rs) : rs[k].success

BoolStr(b) == IF b THEN "True" ELSE "False"

\* mutant: the break is taken only when continue_on_error is set
StopsChainInverted(result, coe) == ~result.success /\ coe

\* if not result.success and not continue_on_error: break
StopsChain(result, coe) == ~result.success /\ ~coe

\* the JSON document of _run_tasks
JsonData(rs) ==
    [success |-> AllSucceeded(rs),
     task_count |-> Len(rs),
     results |-> [k \in 1 .. Len(rs) |->
                    [task_type |-> rs[k].task_type, detail |-> rs[k].detail,
                     success |-> rs[k].success, error |-> rs[k].error_message,
                     data |-> rs[k].data]]]

\* the dict _run_tasks passes to integrations.send_results
SinkPayload(r) ==
    [success |-> r.success, task_type |-> r.task_type, detail |-> r.detail,
     data |-> r.data]

\* one call of execute_task for the task at position i
Attempt(i, o) == [task |-> i, value |-> o.value, calls |-> o.calls]

\* the session behaves as one of these while a chain runs
ChainEnvs ==
    { [fails |-> f, probe |-> [x \in ProbeSelectors |-> a], dom |-> 2] :
        f \in {"none", "goto", "click"}, a \in ProbeAnswers }

\* an except branch that would report the error and go on to the artifact
AfterSessionErrorGoesOn == "save"

\* except Exception: the error is printed and _run_tasks returns False
AfterSessionError == "done"

\* _run_tasks up to the loop: RetryManager(max_retries=retries - 1),
\* results = [], and the session is entered; a failing __aenter__ ends the
\* run in the except branch
RunTasksEnter ==
    /\ executor = "_run_tasks"
    /\ ch_pc = "start"
    /\ max_retries' = retries - 1
    /\ \E entered \in BOOLEAN :
          IF entered
          THEN ch_pc' = "loop" /\ UNCHANGED <<session_error, ch_ret>>
          ELSE /\ ch_pc' = AfterSessionError
               /\ session_error' = TRUE
               /\ ch_ret' = "False"
    /\ UNCHANGED <<base_delay, rm_pc, attempt, last_error, rm_out, fn_log, sleeps>>
    /\ UNCHANGED <<executor, expanded_tasks, continue_on_error, retries,
                   screenshot, json_output, idx, results, attempts, artifact, sent>>
    /\ UNCHANGED <<interp_vars, aux_vars>>

\* the loop takes the next task: retry_manager.execute_with_retry(execute_wrapper)
RunTasksCall ==
    /\ ch_pc = "loop"
    /\ idx <= Len(expanded_tasks)
    /\ RetryEnter
    /\ ch_pc' = "retry"
    /\ UNCHANGED <<max_retries, base_delay>>
    /\ UNCHANGED <<executor, expanded_tasks, continue_on_error, retries,
                   screenshot, json_output, idx, results, attempts,
                   session_error, artifact, sent, ch_ret>>
    /\ UNCHANGED <<interp_vars, aux_vars>>

\* one iteration of the retry loop around execute_wrapper, which returns
\* execute_task(task, session)
RunTasksAttempt ==
    /\ ch_pc = "retry"
    /\ \E env \in ChainEnvs :
          LET o == execute_task(expanded_tasks[idx], env)
          IN  /\ RetryIteration([kind |-> o.kind, value |-> o.value])
              /\ attempts' = Append(attempts, Attempt(idx, o))
    /\ UNCHANGED <<executor, expanded_tasks, continue_on_error, retries,
                   screenshot, json_output, ch_pc, idx, results,
                   session_error, artifact, sent, ch_ret>>
    /\ UNCHANGED <<interp_vars, aux_vars>>

\* the retry loop ran out of attempts
RunTasksExhausted ==
    /\ ch_pc = "retry"
    /\ RetryExhausted
    /\ UNCHANGED chain_vars
    /\ UNCHANGED <<interp_vars, aux_vars>>

\* execute_with_retry is over: if result: results.append(result), and the
\* break on a failed result; an error raised by it ends the run in the
\* except branch
RunTasksCollect ==
    /\ ch_pc = "retry"
    /\ rm_pc \in {"returned", "raised"}
    /\ IF rm_pc = "raised"
       THEN /\ ch_pc' = AfterSessionError
            /\ session_error' = TRUE
            /\ ch_ret' = "False"
            /\ UNCHANGED <<idx, results>>
       ELSE /\ results' = IF Truthy(rm_out) THEN Append(results, rm_out) ELSE results
            /\ IF Truthy(rm_out) /\ StopsChain(rm_out, continue_on_error)
               THEN ch_pc' = "after_loop" /\ UNCHANGED idx
               ELSE ch_pc' = "loop" /\ idx' = idx + 1
            /\ UNCHANGED <<session_error, ch_ret>>
    /\ rm_pc' = "idle"
    /\ UNCHANGED <<max_retries, base_delay, attempt, last_error, rm_out, fn_log, sleeps>>
    /\ UNCHANGED <<executor, expanded_tasks, continue_on_error, retries,
                   screenshot, json_output, attempts, artifact, sent>>
    /\ UNCHANGED <<interp_vars, aux_vars>>

\* the loop has no task left
RunTasksLoopEnd ==
    /\ ch_pc = "loop"
    /\ idx > Len(expanded_tasks)
    /\ ch_pc' = "after_loop"
    /\ UNCHANGED <<executor, expanded_tasks, continue_on_error, retries,
                   screenshot, json_output, idx, results, attempts,
                   session_error, artifact, sent, ch_ret>>
    /\ UNCHANGED <<retry_vars, interp_vars, aux_vars>>

\* the end of the session block: the screenshot when one was asked for,
\* then __aexit__; an error of either ends the run in the except branch
RunTasksLeaveSession ==
    /\ ch_pc = "after_loop"
    /\ \E shot_ok \in BOOLEAN, exit_ok \in BOOLEAN :
          IF (screenshot => shot_ok) /\ exit_ok
          THEN ch_pc' = "save" /\ UNCHANGED <<session_error, ch_ret>>
          ELSE /\ ch_pc' = AfterSessionError
               /\ session_error' = TRUE
               /\ ch_ret' = "False"
    /\ UNCHANGED <<executor, expanded_tasks, continue_on_error, retries,
                   screenshot, json_output, idx, results, attempts, artifact, sent>>
    /\ UNCHANGED <<retry_vars, interp_vars, aux_vars>>

\* if json_output: the JSON document is written
RunTasksSave ==
    /\ ch_pc = "save"
    /\ artifact' = IF json_output THEN JsonData(results) ELSE artifact
    /\ ch_pc' = "send"
    /\ UNCHANGED <<executor, expanded_tasks, continue_on_error, retries,
                   screenshot, json_output, idx, results, attempts,
                   session_error, sent, ch_ret>>
    /\ UNCHANGED <<retry_vars, interp_vars, aux_vars>>

\* a dispatch loop that would go through the results from the last one
NextToSendReversed(rs, n) == rs[Len(rs) - n]

\* the result the loop 'for result in results' takes after n dispatches
NextToSend(rs, n) == rs[n + 1]

\* for result in results: await integrations.send_results({...})
RunTasksSend ==
    /\ ch_pc = "send"
    /\ Len(sent) < Len(results)
    /\ sent' = Append(sent, SinkPayload(NextToSend(results, Len(sent))))
    /\ UNCHANGED <<executor, expanded_tasks, continue_on_error, retries,
                   screenshot, json_output, ch_pc, idx, results, attempts,
                   session_error, artifact, ch_ret>>
    /\ UNCHANGED <<retry_vars, interp_vars, aux_vars>>

\* return all(r.success for r in results)
RunTasksReturn ==
    /\ ch_pc = "send"
    /\ Len(sent) = Len(results)
    /\ ch_ret' = BoolStr(AllSucceeded(results))
    /\ ch_pc' = "done"
    /\ UNCHANGED <<executor, expanded_tasks, continue_on_error, retries,
                   screenshot, json_output, idx, results, attempts,
                   session_error, artifact, sent>>
    /\ UNCHANGED <<retry_vars, interp_vars, aux_vars>>

\* one iteration of the loop of execute_task_chain: a blank task is passed
\* over; any other is executed, its result appended, and a failed result
\* ends the loop unless continue_on_error
ChainIterate ==
    /\ executor = "execute_task_chain"
    /\ ch_pc = "start"
    /\ idx <= Len(expanded_tasks)
    /\ LET task == expanded_tasks[idx]
       IN  IF strip(task) # <<>>
           THEN \E env \in ChainEnvs :
                   LET o == execute_task(strip(task), env)
                   IN  /\ results' = Append(results, o.value)
                       /\ attempts' = Append(attempts, Attempt(idx, o))
                       /\ IF StopsChain(o.value, continue_on_error)
                          THEN ch_pc' = "done" /\ UNCHANGED idx
                          ELSE idx' = idx + 1 /\ UNCHANGED ch_pc
           ELSE idx' = idx + 1 /\ UNCHANGED <<results, attempts, ch_pc>>
    /\ UNCHANGED <<executor, expanded_tasks, continue_on_error, retries,
                   screenshot, json_output, session_error, artifact, sent, ch_ret>>
    /\ UNCHANGED <<retry_vars, interp_vars, aux_vars>>

\* return results
ChainReturn ==
    /\ executor = "execute_task_chain"
    /\ ch_pc = "start"
    /\ idx > Len(expanded_tasks)
    /\ ch_pc' = "done"
    /\ UNCHANGED <<executor, expanded_tasks, continue_on_error, retries,
                   screenshot, json_output, idx, results, attempts,
                   session_error, artifact, sent, ch_ret>>
    /\ UNCHANGED <<retry_vars, interp_vars, aux_vars>>

\* the task strings of the chains
ChainTasks ==
    { <<>>, <<"go", "to", "a.com">>, <<"click", "'A'">>,
      <<"if", "'.x'", "exists", "then", "click", "'A'">> }

Chains == {<<>>} \cup SeqsUpTo(ChainTasks, MaxChain)

InitChain ==
    /\ executor \in {"_run_tasks", "execute_task_chain"}
    /\ expanded_tasks \in Chains
    /\ continue_on_error \in BOOLEAN
    /\ IF executor = "_run_tasks"
       THEN /\ retries \in 0 .. MaxRetries
            /\ screenshot \in BOOLEAN
            /\ json_output \in BOOLEAN
       ELSE /\ retries = 1
            /\ screenshot = FALSE
            /\ json_output = FALSE
    /\ ch_pc = "start"
    /\ idx = 1
    /\ results = <<>>
    /\ attempts = <<>>
    /\ session_error = FALSE
    /\ artifact = None
    /\ sent = <<>>
    /\ ch_ret = "pending"
    /\ max_retries = 3
    /\ base_delay = 1
    /\ RetryIdle
    /\ InterpIdle
    /\ AuxIdle

NextChain ==
    \/ RunTasksEnter
    \/ RunTasksCall
    \/ RunTasksAttempt
    \/ RunTasksExhausted
    \/ RunTasksCollect
    \/ RunTasksLoopEnd
    \/ RunTasksLeaveSession
    \/ RunTasksSave
    \/ RunTasksSend
    \/ RunTasksReturn
    \/ ChainIterate
    \/ ChainReturn

SpecChain == InitChain /\ [][NextChain]_vars

(***************************************************************************)
(* _parse_task_chain (cli.py), one loop iteration per step.                *)
(***************************************************************************)
\* "http" in current
HasHttp(current) ==
    \E k \in 1 .. (Len(current) - 3) :
        SubSeq(current, k, k + 3) = <<"h", "t", "t", "p">>

\* mutant: the flag is cleared at the space whatever current holds
InUrlAfterAnySpace(prompt, i, current, in_url) ==
    IF prompt[i] = "/" /\ i > 1 /\ prompt[i - 1] = ":"
    THEN TRUE
    ELSE IF /\ prompt[i] = " " /\ in_url
            /\ i + 1 <= Len(prompt) /\ prompt[i + 1] # " "
    THEN FALSE
    ELSE in_url

\* mutant: the flag is raised only while current holds "http"
InUrlAfterNeedsHttp(prompt, i, current, in_url) ==
    IF prompt[i] = "/" /\ i > 1 /\ prompt[i - 1] = ":"
    THEN HasHttp(current)
    ELSE IF /\ prompt[i] = " " /\ in_url
            /\ i + 1 <= Len(prompt) /\ prompt[i + 1] # " "
            /\ HasHttp(current)
    THEN FALSE
    ELSE in_url

\* in_url after the first if/elif of the loop body, for the character at i
InUrlAfter(prompt, i, current, in_url) ==
    IF prompt[i] = "/" /\ i > 1 /\ prompt[i - 1] = ":"
    THEN TRUE
    ELSE IF /\ prompt[i] = " " /\ in_url
            /\ i + 1 <= Len(prompt) /\ prompt[i + 1] # " "
            /\ HasHttp(current)
    THEN FALSE
    ELSE in_url

\* an append without the test and without strip()
AppendTaskRaw(tasks, current) == Append(tasks, current)

\* if current.strip(): tasks.append(current.strip())
AppendTask(tasks, current) ==
    IF strip(current) # <<>> THEN Append(tasks, strip(current)) ELSE tasks

\* a loop that would leave the colons out
ExtendWithoutColon(current, char) ==
    IF char = ":" THEN current ELSE Append(current, char)

\* current += char
Extend(current, char) == Append(current, char)

\* one iteration of the loop over the characters of the prompt
SplitScan ==
    /\ sp_pc = "scan"
    /\ sp_i <= Len(sp_prompt)
    /\ LET char == sp_prompt[sp_i]
           in_url == InUrlAfter(sp_prompt, sp_i, sp_current, sp_in_url)
       IN  /\ sp_in_url' = in_url
           /\ IF char = "," /\ ~in_url
              THEN /\ sp_tasks' = AppendTask(sp_tasks, sp_current)
                   /\ sp_current' = <<>>
                   /\ sp_splits' = Append(sp_splits, sp_i)
              ELSE /\ sp_current' = Extend(sp_current, char)
                   /\ UNCHANGED <<sp_tasks, sp_splits>>
    /\ sp_i' = sp_i + 1
    /\ UNCHANGED <<sp_pc, sp_prompt>>
    /\ UNCHANGED <<core_vars, expand_vars, sched_vars, loop_vars, main_vars>>

\* after the loop: the last task is appended and tasks returned
SplitReturn ==
    /\ sp_pc = "scan"
    /\ sp_i > Len(sp_prompt)
    /\ sp_tasks' = AppendTask(sp_tasks, sp_current)
    /\ sp_pc' = "done"
    /\ UNCHANGED <<sp_prompt, sp_i, sp_current, sp_in_url, sp_splits>>
    /\ UNCHANGED <<core_vars, expand_vars, sched_vars, loop_vars, main_vars>>

\* the pieces the prompts to split are made of
SplitChunks ==
    { <<"g">>, <<"h", "t", "t", "p">>, <<":", "/", "/">>, <<":", "/">>,
      <<",">>, <<" ">> }

RECURSIVE Flatten(_)
Flatten(q) == IF q = <<>> THEN <<>> ELSE Head(q) \o Flatten(Tail(q))

SplitPrompts ==
    {<<>>} \cup {Flatten(q) : q \in SeqsUpTo(SplitChunks, MaxChunks)}

InitSplit ==
    /\ sp_pc = "scan"
    /\ sp_prompt \in SplitPrompts
    /\ sp_i = 1
    /\ sp_current = <<>>
    /\ sp_in_url = FALSE
    /\ sp_tasks = <<>>
    /\ sp_splits = <<>>
    /\ CoreIdle
    /\ ExpandIdle
    /\ SchedIdle
    /\ LoopIdle
    /\ MainIdle

NextSplit ==
    \/ SplitScan
    \/ SplitReturn

SpecSplit == InitSplit /\ [][NextSplit]_vars

(***************************************************************************)
(* expand_variables (workflow.py)                                          *)
(***************************************************************************)
\* old occurs in text at position i
OccursAt(text, old, i) ==
    i + Len(old) - 1 <= Len(text) /\ SubSeq(text, i, i + Len(old) - 1) = old

\* text.replace(old, new) from position i on, old not empty: the
\* occurrences of old are taken left to right, without overlap
RECURSIVE ReplaceFrom(_, _, _, _)
ReplaceFrom(text, old, new, i) ==
    IF i > Len(text) THEN <<>>
    ELSE IF OccursAt(text, old, i)
    THEN new \o ReplaceFrom(text, old, new, i + Len(old))
    ELSE <<text[i]>> \o ReplaceFrom(text, old, new, i + 1)

Replace(text, old, new) == ReplaceFrom(text, old, new, 1)

\* mutant: the bare name is the placeholder
PlaceholderBare(key) == key

\* f"{{{key}}}"
Placeholder(key) == <<"{">> \o key \o <<"}">>

\* for key, value in variables.items(): text = text.replace(..., value)
RECURSIVE expand_variables(_, _)
expand_variables(text, variables) ==
    IF variables = <<>> THEN text
    ELSE expand_variables(
             Replace(text, Placeholder(variables[1].key), variables[1].value),
             Tail(variables))

\* expand_variables(text, variables)
ExpandCall ==
    /\ ex_pc = "ready"
    /\ ex_out' = expand_variables(ex_text, ex_variables)
    /\ ex_pc' = "done"
    /\ UNCHANGED <<ex_text, ex_variables>>
    /\ UNCHANGED <<core_vars, split_vars, sched_vars, loop_vars, main_vars>>

\* the characters of the texts, the names and the values
TextChars == { "{", "}", "a", "b" }

Texts == {<<>>} \cup SeqsUpTo(TextChars, MaxText)

VariableNames == { <<"a">>, <<"b">> }

VariableValues ==
    { <<>>, <<"b">>, <<"{", "a", "}">>, <<"{", "b", "}">>, <<"{">> }

\* the mappings, each as the sequence of its items: no name twice
VariableMappings ==
    {<<>>}
    \cup {<<[key |-> k, value |-> v]>> : k \in VariableNames, v \in VariableValues}
    \cup {m \in {<<[key |-> k1, value |-> v1], [key |-> k2, value |-> v2]>> :
                      k1 \in VariableNames, k2 \in VariableNames,
                      v1 \in VariableValues, v2 \in VariableValues} :
              m[1].key # m[2].key}

InitExpand ==
    /\ ex_pc = "ready"
    /\ ex_text \in Texts
    /\ ex_variables \in VariableMappings
    /\ ex_out = <<>>
    /\ CoreIdle
    /\ SplitIdle
    /\ SchedIdle
    /\ LoopIdle
    /\ MainIdle

NextExpand == ExpandCall

SpecExpand == InitExpand /\ [][NextExpand]_vars

(***************************************************************************)
(* main() from its arguments to the task loop of _run_tasks (cli.py): the  *)
(* --vars option is parsed, the tasks are the workflow's or the prompt's,  *)
(* split by _parse_task_chain, and _run_tasks expands the variables.       *)
(***************************************************************************)
\* the first position of sep in text, 0 when there is none
RECURSIVE Find(_, _, _)
Find(text, sep, i) ==
    IF i > Len(text) THEN 0
    ELSE IF text[i] = sep THEN i
    ELSE Find(text, sep, i + 1)

\* text.split(sep), sep one character
RECURSIVE SplitOn(_, _)
SplitOn(text, sep) ==
    LET i == Find(text, sep, 1)
    IN  IF i = 0 THEN <<text>>
        ELSE <<SubSeq(text, 1, i - 1)>>
                 \o SplitOn(SubSeq(text, i + 1, Len(text)), sep)

\* variables[key] = value: a name already there keeps its place
SetItem(variables, key, value) ==
    IF \E k \in DOMAIN variables : variables[k].key = key
    THEN [k \in DOMAIN variables |->
             IF variables[k].key = key
             THEN [key |-> key, value |-> value] ELSE variables[k]]
    ELSE Append(variables, [key |-> key, value |-> value])

\* for pair in args.vars.split(","): key, value = pair.split("=");
\* variables[key.strip()] = value.strip().  The unpacking raises ValueError
\* unless the pair holds exactly one "=".
RECURSIVE ParsePairs(_, _)
ParsePairs(pairs, variables) ==
    IF pairs = <<>> THEN [ok |-> TRUE, variables |-> variables]
    ELSE LET parts == SplitOn(Head(pairs), "=")
         IN  IF Len(parts) # 2 THEN [ok |-> FALSE, variables |-> <<>>]
             ELSE ParsePairs(Tail(pairs),
                             SetItem(variables, strip(parts[1]), strip(parts[2])))

\* if args.vars: ...
ParseVars(vars_arg, variables) ==
    IF vars_arg = <<>> THEN [ok |-> TRUE, variables |-> variables]
    ELSE ParsePairs(SplitOn(vars_arg, ","), variables)

RECURSIVE SplitTrimmed(_)
SplitTrimmed(segments) ==
    IF segments = <<>> THEN <<>>
    ELSE (IF strip(Head(segments)) = <<>> THEN <<>>
          ELSE <<strip(Head(segments))>>) \o SplitTrimmed(Tail(segments))

\* a _run_tasks that would split the expanded text of every task again
RECURSIVE ExpandThenSplit(_, _)
ExpandThenSplit(tasks, variables) ==
    IF tasks = <<>> THEN <<>>
    ELSE SplitTrimmed(SplitOn(expand_variables(Head(tasks), variables), ","))
             \o ExpandThenSplit(Tail(tasks), variables)

\* expanded_tasks = [expand_variables(t, variables) for t in tasks]
ExpandEach(tasks, variables) ==
    [k \in DOMAIN tasks |-> expand_variables(tasks[k], variables)]

\* the --vars option is parsed into variables; a malformed pair ends main
\* with the ValueError (workflow mode reports it, chain mode does not catch
\* it); in chain mode _parse_task_chain(args.prompt) is entered next
MainParseVars ==
    /\ mn_pc = "vars"
    /\ LET r == ParseVars(mn_vars, mn_variables)
       IN  IF r.ok
           THEN /\ mn_variables' = r.variables
                /\ IF mn_load
                   THEN mn_pc' = "run" /\ UNCHANGED sp_pc
                   ELSE mn_pc' = "split" /\ sp_pc' = "scan"
           ELSE /\ mn_pc' = "error"
                /\ UNCHANGED <<mn_variables, sp_pc>>
    /\ UNCHANGED <<mn_load, mn_vars, mn_tasks, mn_expanded>>
    /\ UNCHANGED <<sp_prompt, sp_i, sp_current, sp_in_url, sp_tasks, sp_splits>>
    /\ UNCHANGED <<core_vars, expand_vars, sched_vars, loop_vars>>

\* tasks = _parse_task_chain(args.prompt) has returned
MainTasks ==
    /\ mn_pc = "split"
    /\ sp_pc = "done"
    /\ mn_tasks' = sp_tasks
    /\ mn_pc' = "run"
    /\ UNCHANGED <<mn_load, mn_vars, mn_variables, mn_expanded>>
    /\ UNCHANGED <<core_vars, split_vars, expand_vars, sched_vars, loop_vars>>

\* _run_tasks(tasks, ..., variables, ...) up to its task loop
RunTasksExpand ==
    /\ mn_pc = "run"
    /\ mn_expanded' = ExpandEach(mn_tasks, mn_variables)
    /\ mn_pc' = "expanded"
    /\ UNCHANGED <<mn_load, mn_vars, mn_variables, mn_tasks>>
    /\ UNCHANGED <<core_vars, split_vars, expand_vars, sched_vars, loop_vars>>

\* the pieces of the prompts given to main
MainChunks == { <<"{", "a", "}">>, <<",">>, <<"g">> }

\* the prompts: main returns before the variables for a blank prompt
MainPrompts == {Flatten(q) : q \in SeqsUpTo(MainChunks, MaxChunks)}

\* the values of --vars: none, "a=g", "a=g,g", " a = g", "a=g,a={a}", "a" and
\* "a=b=g"
VarStrings ==
    { <<>>, <<"a", "=", "g">>, <<"a", "=", "g", ",", "g">>,
      <<" ", "a", " ", "=", " ", "g">>,
      <<"a", "=", "g", ",", "a", "=", "{", "a", "}">>,
      <<"a">>, <<"a", "=", "b", "=", "g">> }

\* the tasks and the variables of a loaded workflow
WorkflowTasks ==
    {<<>>} \cup SeqsUpTo({ <<"{", "a", "}">>, <<"g", "{", "a", "}">> }, MaxChain)

WorkflowVariables ==
    { <<>>, <<[key |-> <<"a">>, value |-> <<"g", ",", "g">>]>>,
      <<[key |-> <<"a">>, value |-> <<",">>]>>,
      <<[key |-> <<"a">>, value |-> <<>>]>> }

InitMain ==
    /\ mn_pc = "vars"
    /\ mn_vars \in VarStrings
    /\ \/ /\ mn_load = TRUE
          /\ sp_prompt = <<>>
          /\ mn_tasks \in WorkflowTasks
          /\ mn_variables \in WorkflowVariables
       \/ /\ mn_load = FALSE
          /\ sp_prompt \in MainPrompts
          /\ mn_tasks = <<>>
          /\ mn_variables = <<>>
    /\ mn_expanded = <<>>
    /\ sp_pc = "off"
    /\ sp_i = 1
    /\ sp_current = <<>>
    /\ sp_in_url = FALSE
    /\ sp_tasks = <<>>
    /\ sp_splits = <<>>
    /\ CoreIdle
    /\ ExpandIdle
    /\ SchedIdle
    /\ LoopIdle

NextMain ==
    \/ MainParseVars
    \/ SplitScan
    \/ SplitReturn
    \/ MainTasks
    \/ RunTasksExpand

SpecMain == InitMain /\ [][NextMain]_vars

(***************************************************************************)
(* ScheduleManager.schedule_task (scheduler.py) over the schedule library. *)
(* An interval expression is the sequence of its blank-separated tokens.   *)
(***************************************************************************)
\* interval.lower().strip()
Normalised(interval) == strip([k \in 1 .. Len(interval) |-> Lower(interval[k])])

\* int(token) succeeds on these tokens
IntTokens == { "1", "2", "3", "5" }

IntOf(t) ==
    CASE t = "1" -> 1
      [] t = "2" -> 2
      [] t = "3" -> 3
      [] t = "5" -> 5

\* a parser that would take every unit for minutes
UnitOfMinutesOnly(t) ==
    CASE t \in {"minute", "minutes", "hour", "hours", "day", "days", "monday",
                "mondays", "sunday"} -> "minutes"
      [] OTHER -> "none"

\* "minute" in unit / "hour" in unit / "day" in unit, in this order
UnitOf(t) ==
    CASE t \in {"minute", "minutes"} -> "minutes"
      [] t \in {"hour", "hours"} -> "hours"
      [] t \in {"day", "days", "monday", "mondays", "sunday"} -> "days"
      [] OTHER -> "none"

\* the time strings Job.at() takes for a daily or weekly job: HH:MM
TimeTokens == { "10:00", "09:00" }

AtAccepts(time_str) == Len(time_str) = 1 /\ time_str[1] \in TimeTokens

\* the weekday whose name the token starts with, "" when there is none
WeekdayOf(t) ==
    CASE t \in {"monday", "mondays"} -> "monday"
      [] t = "sunday" -> "sunday"
      [] OTHER -> ""

\* interval.replace("every ", "").split()
RECURSIVE WithoutEvery(_)
WithoutEvery(s) ==
    IF s = <<>> THEN <<>>
    ELSE IF s[1] = "every" /\ Len(s) >= 2 THEN WithoutEvery(Tail(s))
    ELSE <<s[1]>> \o WithoutEvery(Tail(s))

\* the first branch of _parse_schedule: every(amount).<unit>.do(...)
ParseEveryN(s) ==
    LET parts == WithoutEvery(s)
    IN  IF /\ s # <<>> /\ s[1] = "every" /\ Len(s) >= 2
           /\ Len(parts) >= 2
           /\ parts[1] \in IntTokens
           /\ UnitOf(parts[2]) # "none"
        THEN [unit |-> UnitOf(parts[2]), interval |-> IntOf(parts[1]),
              start_day |-> "", at_time |-> ""]
        ELSE NoJob

\* the second branch: every().day.at(time_str).do(...)
ParseDailyAt(s) ==
    IF /\ Len(s) >= 3 /\ s[1] = "daily" /\ s[2] = "at"
       /\ AtAccepts(SubSeq(s, 3, Len(s)))
    THEN [unit |-> "days", interval |-> 1, start_day |-> "", at_time |-> s[3]]
    ELSE NoJob

\* the third branch: getattr(every(), day).at(time_str).do(...)
ParseWeekday(s) ==
    LET day == IF Len(s) >= 2 /\ s[1] = "every" THEN WeekdayOf(s[2]) ELSE ""
        time_str == IF Len(s) >= 4 /\ s[2] = day /\ s[3] = "at"
                    THEN SubSeq(s, 4, Len(s)) ELSE s
    IN  IF day # "" /\ AtAccepts(time_str)
        THEN [unit |-> "weeks", interval |-> 1, start_day |-> day,
              at_time |-> time_str[1]]
        ELSE NoJob

\* _parse_schedule: the job of the first branch that makes one, or None
_parse_schedule(interval) ==
    LET s == Normalised(interval)
    IN  IF ParseEveryN(s) # NoJob THEN ParseEveryN(s)
        ELSE IF ParseDailyAt(s) # NoJob THEN ParseDailyAt(s)
        ELSE ParseWeekday(s)

\* the interval expressions schedule_task is called with
Intervals ==
    { <<"every", "5", "minutes">>, <<"Every", "1", "Hour">>,
      <<"every", "2", "days">>, <<"every", "1", "minute">>,
      <<SP, "every", "5", "minutes", SP>>,
      <<"daily", "at", "10:00">>, <<"every", "monday", "at", "09:00">>,
      <<"every", "sunday", "at", "10:00">>,
      <<>>, <<"sometimes">>, <<"every">>, <<"every", "5">>,
      <<"every", "x", "minutes">>, <<"every", "5", "weeks">>,
      <<"every", "3", "mondays">>,
      <<"daily">>, <<"daily", "at">>, <<"daily", "at", "25:99">>,
      <<"daily", "at", "soon">>, <<"daily", "10:00">>,
      <<"every", "monday">>, <<"every", "monday", "at", "soon">>,
      <<"every", "monday", "09:00">>, <<"every", "day", "at", "10:00">> }

\* a registration that would cancel the triggers registered before
DoCancelsEarlier(jobs, job) == <<job>>

\* Job.do(self._run_async, task_fn): the job joins the jobs of the library's
\* scheduler
Do(jobs, job) == Append(jobs, job)

\* list_tasks(): the names of the registry
list_tasks == {n \in TaskNames : sc_tasks[n] # NoJob}

\* schedule_task(task_name, task_fn, interval)
schedule_task ==
    /\ Len(sc_calls) < MaxCalls
    /\ \E task_name \in TaskNames, interval \in Intervals :
          LET job == IF sc_installed THEN _parse_schedule(interval) ELSE NoJob
              ret == job # NoJob
          IN  /\ sc_tasks' = IF ret THEN [sc_tasks EXCEPT ![task_name] = job]
                             ELSE sc_tasks
              /\ sc_jobs' = IF ret THEN Do(sc_jobs, job) ELSE sc_jobs
              /\ sc_calls' = Append(sc_calls,
                     [task_name |-> task_name, interval |-> interval,
                      kind |-> "return", value |-> ret,
                      tasks_before |-> sc_tasks, jobs_before |-> sc_jobs])
    /\ UNCHANGED sc_installed
    /\ UNCHANGED <<core_vars, split_vars, expand_vars, loop_vars, main_vars>>

InitSched ==
    /\ sc_installed \in BOOLEAN
    /\ sc_tasks = [n \in TaskNames |-> NoJob]
    /\ sc_jobs = <<>>
    /\ sc_calls = <<>>
    /\ CoreIdle
    /\ SplitIdle
    /\ ExpandIdle
    /\ LoopIdle
    /\ MainIdle

NextSched == schedule_task

SpecSched == InitSched /\ [][NextSched]_vars

(***************************************************************************)
(* ScheduleManager.start, stop and _run_async (scheduler.py), over the     *)
(* schedule library's run_pending.  start() is a coroutine, so run_pending *)
(* and the jobs it invokes run inside a running event loop.                *)
(***************************************************************************)
\* seconds of one unit of an interval job
UnitSeconds(unit) ==
    CASE unit = "minutes" -> 60
      [] unit = "hours" -> 3600
      [] unit = "days" -> 86400

\* the period of an interval job: timedelta(**{unit: interval})
Period(job) == job.interval * UnitSeconds(job.unit)

\* asyncio.sleep(1)
TickSeconds == 1

\* Job.should_run: now >= next_run
ShouldRun(j) == rl_now >= rl_next[j]

\* sorted(runnable_jobs): by next_run, jobs of equal next_run in list order
RECURSIVE SortedJobs(_)
SortedJobs(js) ==
    IF js = {} THEN <<>>
    ELSE LET first == CHOOSE j \in js :
                 \A k \in js : \/ rl_next[j] < rl_next[k]
                               \/ (rl_next[j] = rl_next[k] /\ j <= k)
         IN  <<first>> \o SortedJobs(js \ {first})

\* a loop that would end when the library has no job
LoopContinuesWhileJobs == is_running /\ sc_jobs # <<>>

\* a loop that would not look at the flag
LoopContinuesAlways == TRUE

\* the condition of the while loop of start
LoopContinues == is_running

\* a wrapper without the except clause
CatchesNothing(error) == FALSE

\* except Exception in _run_async
Catches(error) == error \in {"RuntimeError", "Exception"}

\* a wrapper that would return at once and leave the body running
WrapperReturnsAtOnce(run) == TRUE

\* _run_async returns when asyncio.run(task_fn()) is over: the call is
\* synchronous
WrapperReturns(run) == run.body # "running"

\* how long the body of a synchronous task_fn may take, in seconds
JobTimes == { 0, MaxJobTime }

\* a start() that would leave the flag alone after an earlier stop()
RunningAtStartUnlessStopped == ~rl_stop.early

\* self.is_running = True
RunningAtStart == TRUE

\* await start(), up to the first test of the loop
Start ==
    /\ rl_pc = "off"
    /\ IF sc_installed
       THEN /\ is_running' = RunningAtStart
            /\ rl_pc' = "check"
       ELSE /\ rl_pc' = "exited"
            /\ UNCHANGED is_running
    /\ UNCHANGED <<rl_now, rl_fn, rl_next, rl_due, rl_runs, rl_stop>>
    /\ UNCHANGED <<core_vars, split_vars, expand_vars, sched_vars, main_vars>>

\* while self.is_running: schedule.run_pending() collects the runnable jobs
LoopCheck ==
    /\ rl_pc = "check"
    /\ IF LoopContinues
       THEN /\ rl_pc' = "pending"
            /\ rl_due' = SortedJobs({j \in DOMAIN rl_next : ShouldRun(j)})
       ELSE /\ rl_pc' = "exited"
            /\ UNCHANGED rl_due
    /\ UNCHANGED <<is_running, rl_now, rl_fn, rl_next, rl_runs, rl_stop>>
    /\ UNCHANGED <<core_vars, split_vars, expand_vars, sched_vars, main_vars>>

\* run_pending calls the next runnable job: _run_async(task_fn) evaluates
\* task_fn() and hands the result to asyncio.run.  An async task_fn gives a
\* coroutine that asyncio.run refuses inside a running event loop
\* (RuntimeError), so its body never starts; a synchronous task_fn runs its
\* body in the call task_fn() itself.
JobInvoke ==
    /\ rl_pc = "pending"
    /\ rl_due # <<>>
    /\ rl_pc' = "job"
    /\ rl_runs' = Append(rl_runs,
           [job |-> Head(rl_due), due |-> rl_next[Head(rl_due)],
            start |-> rl_now, end |-> -1,
            body |-> IF rl_fn[Head(rl_due)] = "async" THEN "not_run"
                     ELSE "running",
            error |-> IF rl_fn[Head(rl_due)] = "async" THEN "RuntimeError"
                      ELSE "none",
            stage |-> "active"])
    /\ UNCHANGED <<is_running, rl_now, rl_fn, rl_next, rl_due, rl_stop>>
    /\ UNCHANGED <<core_vars, split_vars, expand_vars, sched_vars, main_vars>>

\* the body of a synchronous task_fn ends, after some time: it raises, or
\* it returns a value that is no coroutine, which asyncio.run refuses
JobBodyEnd ==
    /\ \E k \in DOMAIN rl_runs, d \in JobTimes, out \in {"completed", "raised"} :
          /\ rl_runs[k].body = "running"
          /\ d = 0 \/ rl_now + d < MaxTime
          /\ rl_now' = rl_now + d
          /\ rl_runs' = [rl_runs EXCEPT
                 ![k].body = out,
                 ![k].error = IF out = "raised" THEN "Exception"
                              ELSE "RuntimeError"]
    /\ UNCHANGED <<rl_pc, is_running, rl_fn, rl_next, rl_due, rl_stop>>
    /\ UNCHANGED <<core_vars, split_vars, expand_vars, sched_vars, main_vars>>

\* _run_async is over: the error is caught and logged and Job.run sets the
\* next run of the job, or the error leaves run_pending and start
JobReturn ==
    /\ rl_pc = "job"
    /\ LET k == Len(rl_runs)
           run == rl_runs[k]
       IN  /\ run.stage = "active"
           /\ WrapperReturns(run)
           /\ IF run.error = "none" \/ Catches(run.error)
              THEN /\ rl_runs' = [rl_runs EXCEPT ![k].stage = "returned",
                                                 ![k].end = rl_now]
                   /\ rl_next' = [rl_next EXCEPT ![run.job] =
                                      rl_now + Period(sc_jobs[run.job])]
                   /\ rl_due' = Tail(rl_due)
                   /\ rl_pc' = "pending"
              ELSE /\ rl_runs' = [rl_runs EXCEPT ![k].stage = "propagated",
                                                 ![k].end = rl_now]
                   /\ rl_pc' = "crashed"
                   /\ UNCHANGED <<rl_next, rl_due>>
    /\ UNCHANGED <<is_running, rl_now, rl_fn, rl_stop>>
    /\ UNCHANGED <<core_vars, split_vars, expand_vars, sched_vars, main_vars>>

\* run_pending is over: await asyncio.sleep(1)
LoopSleep ==
    /\ rl_pc = "pending"
    /\ rl_due = <<>>
    /\ rl_pc' = "sleep"
    /\ UNCHANGED <<is_running, rl_now, rl_fn, rl_next, rl_due, rl_runs,
                   rl_stop>>
    /\ UNCHANGED <<core_vars, split_vars, expand_vars, sched_vars, main_vars>>

\* the sleep is over
LoopWake ==
    /\ rl_pc = "sleep"
    /\ rl_now < MaxTime
    /\ rl_now' = rl_now + TickSeconds
    /\ rl_pc' = "check"
    /\ UNCHANGED <<is_running, rl_fn, rl_next, rl_due, rl_runs, rl_stop>>
    /\ UNCHANGED <<core_vars, split_vars, expand_vars, sched_vars, main_vars>>

\* stop(), called before start() or from elsewhere while start is under way
Stop ==
    /\ rl_pc \in {"off", "check", "pending", "job", "sleep"}
    /\ IF rl_pc = "off" THEN ~rl_stop.early ELSE ~rl_stop.called
    /\ rl_now < MaxTime
    /\ is_running' = FALSE
    /\ rl_stop' = IF rl_pc = "off"
                  THEN [rl_stop EXCEPT !.early = TRUE]
                  ELSE [rl_stop EXCEPT
                           !.called = TRUE,
                           !.at = rl_now,
                           !.active = {k \in DOMAIN rl_runs :
                                          rl_runs[k].stage = "active"}]
    /\ UNCHANGED <<rl_pc, rl_now, rl_fn, rl_next, rl_due, rl_runs>>
    /\ UNCHANGED <<core_vars, split_vars, expand_vars, sched_vars, main_vars>>

\* the interval expressions of the jobs registered before the loop starts
LoopIntervals == { <<"every", "1", "minute">> }

\* the registrations made before the loop starts: name, interval, task_fn;
\* the last one is the single registration of main's schedule mode, an
\* async task_fn, with an expression that cannot be parsed
Registrations ==
    UNION { [1 .. n -> [task_name : {"t1"}, interval : LoopIntervals,
                        fn : {"async", "sync"}]] : n \in 0 .. MaxJobs }
    \cup { <<[task_name |-> "t1", interval |-> <<"sometimes">>,
              fn |-> "async"]>> }

\* the manager and the library after the calls of schedule_task for a
\* sequence of registrations, the schedule package present: the registry,
\* the triggers, the task_fn of every trigger and the calls
RECURSIVE Registered(_)
Registered(regs) ==
    IF regs = <<>>
    THEN [tasks |-> [n \in TaskNames |-> NoJob], jobs |-> <<>>, fns |-> <<>>,
          calls |-> <<>>]
    ELSE LET before == Registered(SubSeq(regs, 1, Len(regs) - 1))
             r == regs[Len(regs)]
             job == _parse_schedule(r.interval)
             ret == job # NoJob
         IN  [tasks |-> IF ret THEN [before.tasks EXCEPT ![r.task_name] = job]
                        ELSE before.tasks,
              jobs |-> IF ret THEN Do(before.jobs, job) ELSE before.jobs,
              fns |-> IF ret THEN Append(before.fns, r.fn) ELSE before.fns,
              calls |-> Append(before.calls,
                     [task_name |-> r.task_name, interval |-> r.interval,
                      kind |-> "return", value |-> ret,
                      tasks_before |-> before.tasks,
                      jobs_before |-> before.jobs])]

\* the jobs schedule_task makes of a sequence of registrations
JobsOf(regs) == Registered(regs).jobs

InitLoop ==
    /\ \E regs \in Registrations :
          /\ sc_installed \in (IF regs = <<>> THEN BOOLEAN ELSE {TRUE})
          /\ sc_jobs = JobsOf(regs)
          /\ sc_tasks = Registered(regs).tasks
          /\ sc_calls = Registered(regs).calls
          /\ rl_fn = Registered(regs).fns
          /\ rl_next = [k \in DOMAIN JobsOf(regs) |-> Period(JobsOf(regs)[k])]
    /\ rl_pc = "off"
    /\ is_running = FALSE
    /\ rl_now = 0
    /\ rl_due = <<>>
    /\ rl_runs = <<>>
    /\ rl_stop = NotStopped
    /\ CoreIdle
    /\ SplitIdle
    /\ ExpandIdle
    /\ MainIdle

NextLoop ==
    \/ Start
    \/ LoopCheck
    \/ JobInvoke
    \/ JobBodyEnd
    \/ JobReturn
    \/ LoopSleep
    \/ LoopWake
    \/ Stop

\* the event loop keeps running start, and the body of a job ends
LoopProgress ==
    LoopCheck \/ JobInvoke \/ JobBodyEnd \/ JobReturn \/ LoopSleep \/ LoopWake

SpecLoop == InitLoop /\ [][NextLoop]_vars /\ WF_vars(LoopProgress)

(***************************************************************************)
(* Properties of the retry manager (SpecRetry).                            *)
(***************************************************************************)
RetryEnded == rm_pc \in {"returned", "raised"}

AllRaised(log) == \A k \in 1 .. Len(log) : log[k].kind = "raise"

RaisesBefore(log, k) == {j \in 1 .. (k - 1) : log[j].kind = "raise"}

\* C1: with max_retries = N >= 0 and an operation that raises on every
\* attempt, the operation is invoked exactly N+1 times (never more while the
\* call runs) and the call then raises the error of the last attempt.
C1_AllRaiseInvokesNPlus1 ==
    (max_retries >= 0 /\ AllRaised(fn_log)) =>
        /\ Len(fn_log) <= max_retries + 1
        /\ RetryEnded =>
              /\ rm_pc = "raised"
              /\ Len(fn_log) = max_retries + 1
              /\ rm_out = Exception(max_retries)
              /\ rm_out = fn_log[Len(fn_log)].value

C1_Witness ==
    /\ rm_pc = "raised"
    /\ max_retries = MaxRetries
    /\ AllRaised(fn_log)
    /\ Len(fn_log) = MaxRetries + 1

\* C2: the k-th wait of a call is the one after the k-th raising attempt
\* that is not the final attempt (index i < max_retries), and it lasts
\* base_delay * 2^i; a wait is pending only right after such an attempt, and
\* when every attempt raised the waits of the finished call are base_delay,
\* 2*base_delay, ..., base_delay * 2^(max_retries-1).
C2_BackoffWaits ==
    LET waited == {i \in 0 .. (Len(fn_log) - 1) :
                      fn_log[i + 1].kind = "raise" /\ i < max_retries}
    IN  /\ Len(sleeps) = Cardinality(waited)
        /\ \A i \in waited :
              sleeps[Cardinality({j \in waited : j <= i})] = base_delay * 2^i
        /\ rm_pc = "sleep" =>
              /\ fn_log[Len(fn_log)].kind = "raise"
              /\ attempt = Len(fn_log) - 1
              /\ attempt < max_retries
        /\ (RetryEnded /\ AllRaised(fn_log) /\ max_retries >= 0) =>
              sleeps = [k \in 1 .. max_retries |-> base_delay * 2^(k - 1)]

C2_Witness ==
    /\ rm_pc = "raised"
    /\ max_retries = 2
    /\ base_delay = 2
    /\ AllRaised(fn_log)
    /\ sleeps = <<2, 4>>

IsFailedResult(o) ==
    o.kind = "return" /\ hasattr(o.value, "success") /\ ~o.value.success

\* C3: a returned result whose success flag is false is the last invocation
\* of the call: the call returns that result, and no wait was started for
\* it (the waits are those of the raising attempts before it).
C3_FailedResultNotRetried ==
    \A k \in 1 .. Len(fn_log) :
        IsFailedResult(fn_log[k]) =>
            /\ k = Len(fn_log)
            /\ rm_pc = "returned"
            /\ rm_out = fn_log[k].value
            /\ Len(sleeps) = Cardinality(RaisesBefore(fn_log, k))

C3_Witness ==
    /\ rm_pc = "returned"
    /\ Len(fn_log) = 2
    /\ fn_log[1].kind = "raise"
    /\ IsFailedResult(fn_log[2])
    /\ Len(sleeps) = 1

\* C4 as stated: every non-raising return ends the loop, the operation is
\* not invoked again and the call returns that value.
C4_Original ==
    \A k \in 1 .. Len(fn_log) :
        fn_log[k].kind = "return" =>
            /\ k = Len(fn_log)
            /\ RetryEnded => (rm_pc = "returned" /\ rm_out = fn_log[k].value)

\* C4 (amended): every non-raising return of a truthy result, whether its
\* success flag is true or it has no success flag, ends the loop at once:
\* it is the last invocation and the call returns it.
C4_TruthyReturnEndsLoop ==
    \A k \in 1 .. Len(fn_log) :
        (/\ fn_log[k].kind = "return"
         /\ Truthy(fn_log[k].value)
         /\ (hasattr(fn_log[k].value, "success") => fn_log[k].value.success)) =>
            /\ k = Len(fn_log)
            /\ rm_pc = "returned"
            /\ rm_out = fn_log[k].value

C4_Witness ==
    /\ rm_pc = "returned"
    /\ Len(fn_log) = 2
    /\ fn_log[1] = Returns(None)
    /\ rm_out = PlainObject

(***************************************************************************)
(* Properties of the chain executors (SpecChain).                          *)
(***************************************************************************)
IsBlank(p) == \A k \in 1 .. Len(p) : p[k] = SP

\* the positions of the chain the executor treats as tasks: _run_tasks every
\* entry, execute_task_chain every entry that is not blank
TaskPositions ==
    IF executor = "execute_task_chain"
    THEN {i \in 1 .. Len(expanded_tasks) : ~IsBlank(expanded_tasks[i])}
    ELSE 1 .. Len(expanded_tasks)

\* the k-th attempt is the attempt of the k-th task position
InChainOrder ==
    \A k \in 1 .. Len(attempts) :
        /\ attempts[k].task \in TaskPositions
        /\ Cardinality({i \in TaskPositions : i <= attempts[k].task}) = k

\* the result list is the outcomes of the attempts, in order
ResultsOfAttempts ==
    /\ Len(results) <= Len(attempts)
    /\ \A k \in 1 .. Len(results) : results[k] = attempts[k].value

AttemptsSucceeded == \A k \in 1 .. Len(attempts) : attempts[k].value.success

ChainEnded == ch_pc = "done" /\ ~session_error

\* C5: with continue_on_error = false a failed result is the last one: no
\* task is interpreted after it, and the result list holds the outcomes of
\* the tasks up to and including the failed one, each attempted once, in
\* chain order.
C5_StopsAtFirstFailure ==
    (executor # "none" /\ ~continue_on_error) =>
        /\ \A k \in 1 .. Len(attempts) :
              ~attempts[k].value.success => k = Len(attempts)
        /\ \A k \in 1 .. Len(results) :
              ~results[k].success => k = Len(results)
        /\ InChainOrder
        /\ ResultsOfAttempts
        /\ ChainEnded => Len(results) = Len(attempts)
        /\ (ChainEnded /\ AttemptsSucceeded /\ (executor = "_run_tasks" => retries >= 1)) =>
              Len(results) = Cardinality(TaskPositions)

C5_Witness ==
    /\ executor = "_run_tasks"
    /\ ChainEnded
    /\ ~continue_on_error
    /\ Len(expanded_tasks) = 2
    /\ Len(attempts) = 1
    /\ Len(results) = 1
    /\ ~results[1].success
    /\ attempts[1].calls # <<>>
    /\ attempts[1].calls[1].out = "raise"

\* C6: with continue_on_error = true and a run that ended without a session
\* error, every task of the chain was attempted exactly once, in chain
\* order, whatever the outcomes, and result i is the outcome of task i.
C6_EveryTaskAttemptedOnce ==
    (executor # "none" /\ continue_on_error /\ ChainEnded) =>
        /\ Len(attempts) = Cardinality(TaskPositions)
        /\ InChainOrder
        /\ Len(results) = Len(attempts)
        /\ ResultsOfAttempts

\* C7 as stated: the value _run_tasks returns is the AND of the success
\* flags of the attempted results, whatever else happened in the run.
C7_Original ==
    (executor = "_run_tasks" /\ ch_pc = "done") =>
        ch_ret = BoolStr(AttemptsSucceeded)

\* C7: when the session block of _run_tasks ends without an error, the
\* value returned is the AND of the success flags of the attempted results;
\* a JSON artifact, when written, carries that AND as 'success' and the
\* number of attempted tasks as task_count; the result list holds attempted
\* tasks only.  When the session block raises, the value returned is false
\* and no artifact is written.
C7_AggregateSuccess ==
    executor = "_run_tasks" =>
        /\ (ch_pc = "done" /\ ~session_error) =>
              ch_ret = BoolStr(AttemptsSucceeded)
        /\ (ch_pc = "done" /\ session_error) =>
              ch_ret = "False" /\ artifact = None
        /\ artifact # None =>
              /\ artifact.success = AttemptsSucceeded
              /\ artifact.task_count = Len(attempts)
              /\ Len(artifact.results) = Len(attempts)
        /\ (ch_pc = "done" /\ ~session_error /\ json_output) => artifact # None
        /\ ResultsOfAttempts

C7_Witness ==
    /\ executor = "_run_tasks"
    /\ ChainEnded
    /\ json_output
    /\ Len(attempts) = 2
    /\ attempts[1].value.success
    /\ ~attempts[2].value.success
    /\ attempts[2].calls # <<>>
    /\ ch_ret = "False"
    /\ artifact # None
    /\ artifact.task_count = 2

(***************************************************************************)
(* Properties of the task interpreter (SpecInterp).                        *)
(***************************************************************************)
InterpDone == it_pc = "done"

\* the k-th call is the DOM query of the data extractor
IsExtractorQuery(calls, k) ==
    calls[k].cap = "evaluate" /\ k > 1 /\ calls[k - 1].cap = "goto"

\* C8 as stated: whenever a call made for the task raised, execute_task
\* returns a result with success = false and an error message.
C8_Original ==
    InterpDone =>
        /\ it_out.kind = "return"
        /\ \A k \in 1 .. Len(it_out.calls) :
              it_out.calls[k].out = "raise" =>
                  /\ ~it_out.value.success
                  /\ it_out.value.error_message # NoMessage

\* C8: execute_task never raises; when a capability call other than the
\* extractor's DOM query raised, it was the last call, and the result
\* returned has success = false, task_type unknown and an error message
\* built from the error.  An error of the extractor's DOM query is kept in
\* the data of a successful extract result, and an error of the existence
\* probe of a conditional is not reported as a failure.
C8_CapabilityFailureReturned ==
    InterpDone =>
        /\ it_out.kind = "return"
        /\ \A k \in 1 .. Len(it_out.calls) :
              LET c == it_out.calls[k]
              IN  c.out = "raise" =>
                    IF c.cap = "query_selector"
                    THEN it_out.value.error_message #
                            Text(<<"Failed to execute task:", c.cap, "failed">>)
                    ELSE IF IsExtractorQuery(it_out.calls, k)
                    THEN /\ it_out.value.success
                         /\ it_out.value.task_type = "extract"
                         /\ "error" \in DOMAIN it_out.value.data
                    ELSE /\ k = Len(it_out.calls)
                         /\ ~it_out.value.success
                         /\ it_out.value.task_type = "unknown"
                         /\ it_out.value.error_message =
                               Text(<<"Failed to execute task:", c.cap, "failed">>)

C8_Witness ==
    /\ InterpDone
    /\ it_prompt = <<"click", "'A'">>
    /\ Len(it_out.calls) = 1
    /\ it_out.calls[1].cap = "click"
    /\ it_out.calls[1].out = "raise"
    /\ ~it_out.value.success

\* C9 as stated: an empty or whitespace-only prompt makes execute_task raise.
C9_Original ==
    (InterpDone /\ IsBlank(it_prompt)) => it_out.kind = "raise"

\* C9: an empty or whitespace-only prompt is rejected before any pattern is
\* tried and without any capability call, and the rejection is a returned
\* result: success = false, task_type unknown, empty detail and the message
\* "Prompt must not be empty."; no error escapes execute_task.
C9_BlankPromptRejected ==
    InterpDone =>
        /\ it_out.kind = "return"
        /\ IsBlank(it_prompt) =>
              /\ it_out.tried = <<>>
              /\ it_out.calls = <<>>
              /\ ~it_out.value.success
              /\ it_out.value.task_type = "unknown"
              /\ it_out.value.detail = Text(<<>>)
              /\ it_out.value.error_message = Text(<<"Prompt must not be empty.">>)
        /\ ~IsBlank(it_prompt) => it_out.tried # <<>>

C9_Witness ==
    /\ InterpDone
    /\ it_prompt = <<SP, SP>>
    /\ it_out.kind = "return"
    /\ it_out.calls = <<>>
    /\ ~it_out.value.success

\* the order of the patterns C10 states
C10_Order ==
    << "if", "extract", "click", "fill", "type", "press", "wait",
       "screenshot", "execute", "go_to", "search" >>

\* the capability a pattern's handler calls first, and the task_type of its
\* successful result
C10_Handler ==
    [ extract    |-> [cap |-> "goto", task_type |-> "extract"],
      click      |-> [cap |-> "click", task_type |-> "click"],
      fill       |-> [cap |-> "type", task_type |-> "fill"],
      type       |-> [cap |-> "type", task_type |-> "type"],
      press      |-> [cap |-> "press", task_type |-> "press"],
      wait       |-> [cap |-> "wait_for_selector", task_type |-> "wait"],
      screenshot |-> [cap |-> "screenshot", task_type |-> "screenshot"],
      execute    |-> [cap |-> "evaluate", task_type |-> "execute_js"],
      go_to      |-> [cap |-> "goto", task_type |-> "navigate"],
      search     |-> [cap |-> "goto", task_type |-> "search"] ]

\* C10: the patterns are tried on the trimmed prompt in the order
\* Conditional, Extract, Click, Fill, Type, Press, Wait, Screenshot,
\* ExecuteScript, Navigate, Search/fallback; the patterns tried are that
\* order up to the first pattern that matches, none before it matches, and
\* only that pattern's handler runs.
C10_FixedPatternOrder ==
    (InterpDone /\ ~IsBlank(it_prompt)) =>
        LET t == it_out.tried
            n == Len(t)
            s == strip(it_prompt)
            calls == it_out.calls
        IN  /\ n \in 1 .. Len(C10_Order)
            /\ t = SubSeq(C10_Order, 1, n)
            /\ \A j \in 1 .. (n - 1) : ~Match(C10_Order[j], s).ok
            /\ Match(C10_Order[n], s).ok
            /\ Len(calls) >= 1
            /\ IF n = 1
               THEN calls[1].cap = "query_selector"
               ELSE /\ calls[1].cap = C10_Handler[C10_Order[n]].cap
                    /\ Len(calls) <= (IF C10_Order[n] = "extract" THEN 2 ELSE 1)
                    /\ it_out.value.success =>
                          it_out.value.task_type = C10_Handler[C10_Order[n]].task_type

C10_Witness ==
    /\ InterpDone
    /\ it_prompt = <<"go", "to", "a.com">>
    /\ Len(it_out.tried) = 10
    /\ it_out.value.task_type = "navigate"
    /\ it_out.calls[1].cap = "goto"

\* the trimmed prompt matches none of the patterns 1-10
NoPatternMatches(s) ==
    \A j \in 1 .. (Len(C10_Order) - 1) : ~Match(C10_Order[j], s).ok

\* the search URL of a query
SearchUrl(query) ==
    <<"https://www.google.com/search?q=">>
        \o [k \in 1 .. Len(query) |-> QuoteToken(query[k])] \o <<"&hl=en">>

\* the prompt has the form: search [for] <term>
IsExplicitSearch(s) == Len(s) >= 2 /\ Lower(s[1]) = "search"

\* C11 as stated: a prompt that matches none of the patterns 1-10 makes
\* exactly one navigation, to the search URL built from the whole trimmed
\* prompt.
C11_Original ==
    (InterpDone /\ ~IsBlank(it_prompt) /\ NoPatternMatches(strip(it_prompt))) =>
        /\ Len(it_out.calls) = 1
        /\ it_out.calls[1].cap = "goto"
        /\ it_out.calls[1].a = SearchUrl(strip(it_prompt))

\* C11: a prompt that matches none of the patterns 1-10 makes exactly one
\* capability call, a navigation to the search URL of its query; the query
\* is the term after "search" or "search for" when the prompt has that form,
\* and the whole trimmed prompt otherwise; the result of a navigation that
\* succeeded is a search result whose detail is the query.
C11_FallbackSearch ==
    (InterpDone /\ ~IsBlank(it_prompt) /\ NoPatternMatches(strip(it_prompt))) =>
        LET s == strip(it_prompt)
            query == IF ~IsExplicitSearch(s) THEN s
                     ELSE IF Len(s) >= 3 /\ Lower(s[2]) = "for"
                     THEN SubSeq(s, 3, Len(s))
                     ELSE SubSeq(s, 2, Len(s))
        IN  /\ Len(it_out.calls) = 1
            /\ it_out.calls[1].cap = "goto"
            /\ it_out.calls[1].a = SearchUrl(query)
            /\ it_out.calls[1].out = "ok" =>
                  /\ it_out.value.success
                  /\ it_out.value.task_type = "search"
                  /\ it_out.value.detail = Text(query)

C11_Witness ==
    /\ InterpDone
    /\ it_prompt = <<"'A'", "q">>
    /\ Len(it_out.calls) = 1
    /\ it_out.calls[1].a = <<"https://www.google.com/search?q=", "%27A%27", "q", "&hl=en">>
    /\ it_out.value.task_type = "search"

\* the prompt of the call is a conditional task
IsConditional == ~IsBlank(it_prompt) /\ MatchIf(strip(it_prompt)).ok

\* the groups of the conditional prompt
Conditional == MatchIf(strip(it_prompt))

\* the calls made after the probe are those of interpreting task, and the
\* result returned is its result
RanBranch(task) ==
    LET r == execute_task(task, it_env)
    IN  /\ it_out.value = r.value
        /\ SubSeq(it_out.calls, 2, Len(it_out.calls)) = r.calls

\* C12: a conditional task probes its condition once, then interprets the
\* then-task iff the probe reported the element present, otherwise the
\* else-task when there is one, and nothing when there is none; its result
\* is the result of the branch interpreted, failed or not; a branch that is
\* itself a conditional is interpreted the same way.
C12_OneBranchOrNone ==
    (InterpDone /\ IsConditional) =>
        LET probe == it_out.calls[1]
            present == probe.out = "present"
        IN  /\ probe.cap = "query_selector"
            /\ probe.a = Conditional.condition
            /\ present <=>
                  /\ probe.a[1] \in DOMAIN it_env.probe
                  /\ it_env.probe[probe.a[1]] = "present"
            /\ present => RanBranch(Conditional.then)
            /\ (~present /\ Conditional.else # NoGroup) => RanBranch(Conditional.else)
            /\ (~present /\ Conditional.else = NoGroup) => Len(it_out.calls) = 1

\* a conditional nested in the else-task: neither probe finds its element
\* and the inner else-task fails on its call
C12_Witness ==
    /\ InterpDone
    /\ it_prompt = <<"if", "'.x'", "exists", "then", "click", "'A'", "else",
                     "if", ".y", "exists", "then", "click", "'A'",
                     "else", "go", "to", "a.com">>
    /\ it_env.probe[".x"] = "absent"
    /\ Len(it_out.calls) = 3
    /\ it_out.calls[2].cap = "query_selector"
    /\ it_out.calls[2].out = "absent"
    /\ it_out.calls[3].cap = "goto"
    /\ it_out.calls[3].out = "raise"
    /\ ~it_out.value.success

\* C13: a conditional task without else clause whose probe reports the
\* element absent makes no call but the probe and returns a result with
\* success = true.
C13_AbsentNoElseIsNeutral ==
    (InterpDone /\ IsConditional /\ Conditional.else = NoGroup
        /\ it_out.calls[1].out = "absent") =>
        /\ Len(it_out.calls) = 1
        /\ it_out.calls[1].cap = "query_selector"
        /\ it_out.value.success
        /\ it_out.value.error_message = NoMessage

C13_Witness ==
    /\ InterpDone
    /\ it_prompt = <<"if", "'.x'", "exists", "then", "click", "'A'">>
    /\ it_env.probe[".x"] = "absent"
    /\ it_env.fails = "click"
    /\ Len(it_out.calls) = 1
    /\ it_out.value.success

\* the session with every raising probe answering "absent" instead
ProbeErrorsAbsent(env) ==
    [env EXCEPT !.probe = [x \in DOMAIN env.probe |->
                              IF env.probe[x] = "raise" THEN "absent"
                              ELSE env.probe[x]]]

\* the calls with the outcome of every probe left out
CallsMade(calls) ==
    [k \in 1 .. Len(calls) |->
        IF calls[k].cap = "query_selector"
        THEN [calls[k] EXCEPT !.out = "probed"] ELSE calls[k]]

\* C14: a raising probe is treated as "element absent": the call returns
\* the result, and makes the calls, it would with every raising probe
\* reporting the element absent; in particular the else-task is interpreted
\* when there is one and the result is the neutral success otherwise, never
\* a failure made from the probe's error.
C14_ProbeErrorIsAbsent ==
    (InterpDone /\ IsConditional) =>
        LET quiet == execute_task(it_prompt, ProbeErrorsAbsent(it_env))
        IN  /\ it_out.kind = "return"
            /\ it_out.value = quiet.value
            /\ CallsMade(it_out.calls) = CallsMade(quiet.calls)
            /\ it_out.calls[1].out = "raise" =>
                  IF Conditional.else # NoGroup
                  THEN RanBranch(Conditional.else)
                  ELSE /\ Len(it_out.calls) = 1
                       /\ it_out.value.success
                       /\ it_out.value.detail =
                             Text(<<"Condition", "false,", "no action executed">>)

C14_Witness ==
    /\ InterpDone
    /\ it_prompt = <<"if", "'.x'", "exists", "then", "click", "'A'",
                     "else", "go", "to", "a.com">>
    /\ it_out.calls[1].out = "raise"
    /\ Len(it_out.calls) = 2
    /\ it_out.calls[2].cap = "goto"
    /\ it_out.value.task_type = "navigate"
    /\ it_out.value.success

\* the targets that start with a URI scheme (letters, digits, "+", "-", "."
\* after a first letter, then ":")
C15_HasUriScheme(target) ==
    target[1] \in { "https://a.com", "HTTP://b.org", "ftp://f.net",
                    "chrome-extension://e", "about:blank" }

\* the targets that start with letters followed by "://"
C15_HasLetterScheme(target) ==
    target[1] \in { "https://a.com", "HTTP://b.org", "ftp://f.net" }

\* the targets that start with "localhost" or "127.0.0.1" as written
C15_IsLoopback(target) ==
    target[1] \in { "localhost:3000", "localhost.a.com", "127.0.0.1:8000" }

\* the prompt of the call is a Navigate task, and its target
IsNavigate == ~IsBlank(it_prompt) /\ Len(it_out.tried) = 10

NavigateTarget == SubSeq(strip(it_prompt), 3, Len(strip(it_prompt)))

\* the prompt of the call is an Extract task, and its url
IsExtract == ~IsBlank(it_prompt) /\ Len(it_out.tried) = 2

ExtractUrl == MatchExtract(strip(it_prompt)).url

\* C15 as stated: every target that already has a scheme reaches goto
\* unchanged.
C15_Original ==
    (InterpDone /\ IsNavigate /\ C15_HasUriScheme(NavigateTarget)) =>
        it_out.calls[1].a = NavigateTarget

\* C15: a target that starts with letters followed by "://" (in any case)
\* is passed to goto unchanged; any other target that starts with
\* "localhost" or "127.0.0.1" gets "http://" in front, and every other
\* target "https://"; a Navigate task calls goto exactly once, with that
\* URL, and an Extract task navigates to the URL made the same way.
C15_UrlAbsolutization ==
    LET url(target) ==
            IF C15_HasLetterScheme(target) THEN target
            ELSE IF C15_IsLoopback(target) THEN <<"http://">> \o target
            ELSE <<"https://">> \o target
    IN  /\ (InterpDone /\ IsNavigate) =>
              /\ Len(it_out.calls) = 1
              /\ it_out.calls[1].cap = "goto"
              /\ it_out.calls[1].a = url(NavigateTarget)
              /\ it_out.value.success => it_out.value.detail = Text(url(NavigateTarget))
        /\ (InterpDone /\ IsExtract) =>
              /\ it_out.calls[1].cap = "goto"
              /\ it_out.calls[1].a = url(ExtractUrl)

C15_Witness ==
    /\ InterpDone
    /\ it_prompt = <<"go", "to", "localhost:3000">>
    /\ Len(it_out.calls) = 1
    /\ it_out.calls[1].a = <<"http://", "localhost:3000">>
    /\ it_out.value.success

\* C16: when the DOM query of the extractor raises, the Extract task still
\* returns a result with success = true and no error message; its data is
\* the extractor's record: the query, empty results, an error field and no
\* count, and the detail reports 0 items.
C16_ExtractorFailureKept ==
    (InterpDone /\ IsExtract /\ Len(it_out.calls) = 2
        /\ it_out.calls[2].out = "raise") =>
        /\ it_out.calls[2].cap = "evaluate"
        /\ it_out.value.success
        /\ it_out.value.task_type = "extract"
        /\ it_out.value.error_message = NoMessage
        /\ DOMAIN it_out.value.data = {"query", "results", "error"}
        /\ it_out.value.data.query = MatchExtract(strip(it_prompt)).items
        /\ it_out.value.data.results = <<>>
        /\ it_out.value.data.error = <<"evaluate", "failed">>
        /\ it_out.value.detail.nums = <<0>>

C16_Witness ==
    /\ InterpDone
    /\ it_prompt = <<"extract", "links", "from", "a.com">>
    /\ it_env.fails = "evaluate"
    /\ it_env.dom = 2
    /\ it_out.value.success
    /\ it_out.value.data.results = <<>>
    /\ "error" \in DOMAIN it_out.value.data

(***************************************************************************)
(* Properties of the prompt splitter (SpecSplit).                          *)
(***************************************************************************)
\* "://" starts at position j of the prompt
SchemeAt(j) ==
    /\ j + 2 <= Len(sp_prompt)
    /\ SubSeq(sp_prompt, j, j + 2) = <<":", "/", "/">>

\* position k lies between a "://" and the first space after it
InUrlSpan(k) ==
    \E j \in 1 .. (k - 3) :
        /\ SchemeAt(j)
        /\ \A x \in (j + 3) .. k : sp_prompt[x] # " "

\* C17: a comma ends a task only when the in-URL flag is clear, and never
\* between a "://" and the first space after it: every task split off so
\* far ended at a comma outside such a span, so the text from "://" to that
\* space, commas included, is inside one task.
C17_NoSplitInsideUrl ==
    /\ \A n \in 1 .. Len(sp_splits) :
          /\ sp_prompt[sp_splits[n]] = ","
          /\ ~InUrlSpan(sp_splits[n])
    /\ (sp_splits # <<>> /\ sp_splits[Len(sp_splits)] = sp_i - 1) => ~sp_in_url

\* "http://g,g": the comma of the URL stays in its task
C17_Witness ==
    /\ sp_pc = "done"
    /\ sp_prompt = <<"h", "t", "t", "p", ":", "/", "/", "g", ",", "g">>
    /\ sp_tasks = <<sp_prompt>>
    /\ sp_splits = <<>>

(***************************************************************************)
(* Properties of expand_variables (SpecExpand).                            *)
(***************************************************************************)
\* the names of the mapping
MappedNames == {ex_variables[n].key : n \in 1 .. Len(ex_variables)}

\* the value mapped to a name
MappedValue(name) ==
    ex_variables[CHOOSE n \in 1 .. Len(ex_variables) : ex_variables[n].key = name].value

\* a placeholder of a mapped name starts at position i of text
MappedPlaceholderAt(text, i) ==
    \E name \in MappedNames :
        /\ i + Len(name) + 1 <= Len(text)
        /\ text[i] = "{"
        /\ SubSeq(text, i + 1, i + Len(name)) = name
        /\ text[i + Len(name) + 1] = "}"

\* C18: a text that contains no placeholder of a name of the mapping is
\* returned as it is, its placeholders of other names included.
C18_NoPlaceholderUnchanged ==
    (ex_pc = "done"
        /\ \A i \in 1 .. Len(ex_text) : ~MappedPlaceholderAt(ex_text, i)) =>
        ex_out = ex_text

\* the text "{b}" with a mapping for a only, whose value is itself "{a}"
C18_Witness ==
    /\ ex_pc = "done"
    /\ ex_text = <<"{", "b", "}">>
    /\ ex_variables = <<[key |-> <<"a">>, value |-> <<"{", "a", "}">>]>>
    /\ ex_out = ex_text

\* the text with every placeholder of a mapped name in it replaced by the
\* mapped value in one pass from position i on, the values not scanned
RECURSIVE ExpandedOnce(_, _)
ExpandedOnce(text, i) ==
    IF i > Len(text) THEN <<>>
    ELSE IF MappedPlaceholderAt(text, i)
    THEN LET name == CHOOSE nm \in MappedNames :
                        /\ i + Len(nm) + 1 <= Len(text)
                        /\ SubSeq(text, i + 1, i + Len(nm)) = nm
                        /\ text[i + Len(nm) + 1] = "}"
         IN  MappedValue(name) \o ExpandedOnce(text, i + Len(name) + 2)
    ELSE <<text[i]>> \o ExpandedOnce(text, i + 1)

\* C19: the text returned is the input with each placeholder of a mapped
\* name replaced once by its value, the inserted values appearing verbatim,
\* whatever the order of the mapping.
C19_NonRecursive ==
    ex_pc = "done" => ex_out = ExpandedOnce(ex_text, 1)

(***************************************************************************)
(* Properties of the scheduler (SpecSched).                                *)
(***************************************************************************)
\* the three accepted forms of an interval expression, in any case and with
\* blanks around: every N minute(s)|hour(s)|day(s), daily at HH:MM,
\* every <weekday> at HH:MM
C20_AcceptedForm(interval) ==
    LET s == Normalised(interval)
    IN  \/ /\ Len(s) = 3 /\ s[1] = "every" /\ s[2] \in IntTokens
           /\ s[3] \in {"minute", "minutes", "hour", "hours", "day", "days"}
        \/ /\ Len(s) = 3 /\ s[1] = "daily" /\ s[2] = "at" /\ s[3] \in TimeTokens
        \/ /\ Len(s) = 4 /\ s[1] = "every" /\ s[2] \in {"monday", "sunday"}
           /\ s[3] = "at" /\ s[4] \in TimeTokens

\* C20: every call of schedule_task with an interval expression of none of
\* the three accepted forms returned False without raising, and left the
\* registry and the library's jobs as they were.
C20_UnparseableRejected ==
    \A n \in 1 .. Len(sc_calls) :
        ~C20_AcceptedForm(sc_calls[n].interval) =>
            /\ sc_calls[n].kind = "return"
            /\ sc_calls[n].value = FALSE
            /\ (IF n < Len(sc_calls) THEN sc_calls[n + 1].tasks_before
                                     ELSE sc_tasks) = sc_calls[n].tasks_before
            /\ (IF n < Len(sc_calls) THEN sc_calls[n + 1].jobs_before
                                     ELSE sc_jobs) = sc_calls[n].jobs_before

(***************************************************************************)
(* Properties of the run loop (SpecLoop).                                  *)
(***************************************************************************)
\* C21: every job that run_pending invoked and that has returned was due
\* when it was invoked, and its body was executed to its end.
C21_DueJobBodyExecuted ==
    \A k \in DOMAIN rl_runs :
        rl_runs[k].stage = "returned" =>
            /\ rl_runs[k].due <= rl_runs[k].start
            /\ rl_runs[k].body \in {"completed", "raised"}

\* the invocations whose body is running
RunningBodies == {k \in DOMAIN rl_runs : rl_runs[k].body = "running"}

\* C22: at most one job is executing at any time; the loop tests its
\* condition, and sleeps, only when no job is executing; and an invocation
\* starts only after every earlier one is over, so a job that takes longer
\* than its interval is not invoked again while it runs.
C22_NoOverlap ==
    /\ Cardinality(RunningBodies) <= 1
    /\ Cardinality({k \in DOMAIN rl_runs : rl_runs[k].stage = "active"}) <= 1
    /\ rl_pc \in {"check", "sleep", "exited"} =>
           \A k \in DOMAIN rl_runs :
               rl_runs[k].stage # "active" /\ rl_runs[k].body # "running"
    /\ \A k, l \in DOMAIN rl_runs :
           k < l => /\ rl_runs[k].stage # "active"
                    /\ rl_runs[k].body # "running"
                    /\ rl_runs[k].end <= rl_runs[l].start

\* a job whose body took longer than its interval was invoked again, after
\* the first invocation was over
C22_Witness ==
    \E k, l \in DOMAIN rl_runs :
        /\ k < l
        /\ rl_runs[k].job = rl_runs[l].job
        /\ rl_runs[k].body = "completed"
        /\ rl_runs[k].end - rl_runs[k].start > Period(sc_jobs[rl_runs[k].job])
        /\ rl_runs[l].start >= rl_runs[k].end

\* stop() was called while the loop was under way
StopCalled == rl_stop.called

\* C23: once stop() was called while the loop was running the loop ends,
\* at the first test of its condition that follows; when it has ended no
\* job is executing and no job is invoked any more; and a body running when
\* stop() was called is not cut short, it ends by itself.
C23_StopEndsLoop ==
    /\ StopCalled ~> (rl_pc = "exited")
    /\ [][(StopCalled /\ rl_pc = "check") => rl_pc' = "exited"]_vars
    /\ [](rl_pc = "exited" =>
             \A k \in DOMAIN rl_runs :
                 rl_runs[k].stage = "returned" /\ rl_runs[k].body # "running")
    /\ [][rl_pc = "exited" => rl_runs' = rl_runs]_vars
    /\ [][\A k \in DOMAIN rl_runs :
              rl_runs[k].body = "running" =>
                  rl_runs'[k].body \in {"running", "completed", "raised"}]_vars

\* stop() was called while a body was running; the body completed after
\* that and then the loop ended
C23_Witness ==
    /\ rl_pc = "exited"
    /\ \E k \in DOMAIN rl_runs :
          /\ rl_runs[k].body = "completed"
          /\ k \in rl_stop.active
          /\ rl_stop.at < rl_runs[k].end

\* the invocations in which an exception was raised, by the body of the job
\* or by asyncio.run
FailedRuns == {k \in DOMAIN rl_runs : rl_runs[k].error # "none"}

\* C30: an exception raised in a job never leaves the wrapper: the loop does
\* not end by it, the invocation returns, the job is still in the library
\* and in the registry, and its next run is one period after the return
\* unless it has run again since.
C30_JobErrorContained ==
    /\ rl_pc # "crashed"
    /\ \A k \in FailedRuns :
          /\ rl_runs[k].stage # "propagated"
          /\ rl_runs[k].job \in DOMAIN sc_jobs
          /\ sc_tasks["t1"] # NoJob
          /\ rl_runs[k].stage = "returned" =>
                \/ rl_next[rl_runs[k].job] =
                       rl_runs[k].end + Period(sc_jobs[rl_runs[k].job])
                \/ \E l \in DOMAIN rl_runs :
                       /\ l > k
                       /\ rl_runs[l].job = rl_runs[k].job
                       /\ rl_runs[l].start >=
                              rl_runs[k].end + Period(sc_jobs[rl_runs[k].job])

\* the body of a job raised, the loop went on ticking and invoked the job
\* again when it was due
C30_Witness ==
    \E k, l \in DOMAIN rl_runs :
        /\ k < l
        /\ rl_runs[k].job = rl_runs[l].job
        /\ rl_runs[k].body = "raised"
        /\ rl_runs[k].stage = "returned"
        /\ rl_runs[l].start >= rl_runs[k].end + Period(sc_jobs[rl_runs[k].job])
        /\ rl_pc = "sleep"

(***************************************************************************)
(* Properties of the result dispatch of _run_tasks (SpecChain).            *)
(***************************************************************************)
\* the k-th payload dispatched carries the k-th result
SentInResultOrder ==
    /\ Len(sent) <= Len(results)
    /\ \A k \in 1 .. Len(sent) :
          /\ sent[k].success = results[k].success
          /\ sent[k].task_type = results[k].task_type
          /\ sent[k].detail = results[k].detail
          /\ sent[k].data = results[k].data

\* nothing is dispatched before the task loop and the session block are over
SentAfterLoop ==
    sent # <<>> =>
        /\ ch_pc \in {"send", "done"}
        /\ rm_pc = "idle"
        /\ ~session_error
        /\ Len(results) = Len(attempts)

C25_Keywords == << "link", "heading", "image", "button", "table", "text" >>

\* the routine the query selects: the first keyword it contains, in any
\* case, or the generic routine
C25_Selected(query) ==
    LET hits == {k \in 1 .. Len(C25_Keywords) : Contains(query, C25_Keywords[k])}
    IN  IF hits = {} THEN "generic"
        ELSE C25_Keywords[CHOOSE k \in hits : \A h \in hits : k <= h]

ExtractItems == MatchExtract(strip(it_prompt)).items

\* C25: an Extract task calls goto first; when the navigation raised nothing
\* else is called; otherwise exactly one script is evaluated after it, the
\* one of the first of link, heading, image, button, table, text that the
\* query contains, and the generic one when it contains none.
C25_NavigateThenExtract ==
    (InterpDone /\ IsExtract) =>
        /\ Len(it_out.calls) >= 1
        /\ it_out.calls[1].cap = "goto"
        /\ it_out.calls[1].a = _ensure_url(ExtractUrl)
        /\ it_out.calls[1].out = "raise" => Len(it_out.calls) = 1
        /\ it_out.calls[1].out # "raise" =>
              /\ Len(it_out.calls) = 2
              /\ it_out.calls[2].cap = "evaluate"
              /\ it_out.calls[2].a = <<C25_Selected(ExtractItems)>>

\* a query with two keywords, heading before link: the link routine ran,
\* after the navigation
C25_Witness ==
    /\ InterpDone
    /\ it_prompt = <<"extract", "headings", "links", "from", "a.com">>
    /\ Len(it_out.calls) = 2
    /\ it_out.calls[1].cap = "goto"
    /\ it_out.calls[2].cap = "evaluate"
    /\ it_out.calls[2].a = <<"link">>
    /\ it_out.value.success

\* the Extract task navigated and ran its extractor
ExtractorRan == InterpDone /\ IsExtract /\ Len(it_out.calls) = 2

\* what C26 says of an extractor that failed: no results, no count, and a
\* detail that reports 0 items
C26_FailedExtraction ==
    (ExtractorRan /\ it_out.calls[2].out = "raise") =>
        /\ it_out.value.success
        /\ it_out.value.data.results = <<>>
        /\ "count" \notin DOMAIN it_out.value.data
        /\ "error" \in DOMAIN it_out.value.data
        /\ it_out.value.detail.nums = <<0>>

\* C26 as stated: the count of a completed extraction is the number of its
\* results and is at most 50, whatever the routine.
C26_Original ==
    /\ C26_FailedExtraction
    /\ (ExtractorRan /\ it_out.calls[2].out # "raise") =>
          /\ "count" \in DOMAIN it_out.value.data
          /\ it_out.value.data.count = Len(it_out.value.data.results)
          /\ it_out.value.data.count <= ListCap

\* C26: the count of a completed extraction is the number of its results
\* and the detail reports it; it is at most 50 for every routine but the
\* table routine, whose results are all the tables of the page, each with at
\* most 20 rows.  A failed extraction has no results and no count, and the
\* detail reports 0 items.
C26_CountMatchesResults ==
    /\ C26_FailedExtraction
    /\ (ExtractorRan /\ it_out.calls[2].out # "raise") =>
          LET data == it_out.value.data
          IN  /\ "count" \in DOMAIN data
              /\ data.count = Len(data.results)
              /\ it_out.value.detail.nums = <<data.count>>
              /\ C25_Selected(ExtractItems) # "table" => data.count <= ListCap
              /\ C25_Selected(ExtractItems) = "table" =>
                    /\ data.count = it_env.dom
                    /\ \A k \in 1 .. Len(data.results) :
                           data.results[k].rows <= RowCap

\* a page with more links than the cap: 50 results, count 50
C26_Witness ==
    /\ ExtractorRan
    /\ it_prompt = <<"extract", "links", "from", "a.com">>
    /\ it_env.dom > ListCap
    /\ it_out.calls[2].out # "raise"
    /\ it_out.value.data.count = ListCap
    /\ Len(it_out.value.data.results) = ListCap

(***************************************************************************)
(* Further properties of the prompt splitter (SpecSplit).                  *)
(***************************************************************************)
\* the n-th segment of the prompt: the text between the commas that ended a
\* task, before the first and after the last of them
Segment(n) ==
    SubSeq(sp_prompt,
           IF n = 1 THEN 1 ELSE sp_splits[n - 1] + 1,
           IF n = Len(sp_splits) + 1 THEN Len(sp_prompt) ELSE sp_splits[n] - 1)

\* the text has no character but blanks
OnlyBlanks(text) == \A k \in 1 .. Len(text) : text[k] = " "

\* the segments from the n-th on that are not blank, trimmed, in order
RECURSIVE TrimmedSegmentsFrom(_)
TrimmedSegmentsFrom(n) ==
    IF n > Len(sp_splits) + 1 THEN <<>>
    ELSE (IF OnlyBlanks(Segment(n)) THEN <<>> ELSE <<strip(Segment(n))>>)
             \o TrimmedSegmentsFrom(n + 1)

\* C27: every task returned is non-empty and has no blank at either end;
\* the tasks are the segments of the prompt that are not blank, trimmed, in
\* the order of the prompt, so an empty or blank segment yields no task.
C27_TrimmedNonEmptyInOrder ==
    /\ \A k \in 1 .. Len(sp_tasks) :
          /\ sp_tasks[k] # <<>>
          /\ sp_tasks[k][1] # " "
          /\ sp_tasks[k][Len(sp_tasks[k])] # " "
    /\ sp_pc = "done" => sp_tasks = TrimmedSegmentsFrom(1)

\* "g,, g", a prompt with an empty segment and a segment with a blank in
\* front: two tasks from three segments
C27_Witness ==
    /\ sp_pc = "done"
    /\ sp_prompt = <<"g", ",", ",", " ", "g">>
    /\ sp_splits = <<2, 3>>
    /\ sp_tasks = << <<"g">>, <<"g">> >>

\* the tasks joined with ","
RECURSIVE JoinTasks(_)
JoinTasks(tasks) ==
    IF tasks = <<>> THEN <<>>
    ELSE IF Len(tasks) = 1 THEN tasks[1]
    ELSE tasks[1] \o <<",">> \o JoinTasks(Tail(tasks))

\* the text without its blanks
RECURSIVE WithoutBlanks(_)
WithoutBlanks(text) ==
    IF text = <<>> THEN <<>>
    ELSE (IF text[1] = " " THEN <<>> ELSE <<text[1]>>) \o WithoutBlanks(Tail(text))

\* the text without its blanks and commas
RECURSIVE WithoutBlanksAndCommas(_)
WithoutBlanksAndCommas(text) ==
    IF text = <<>> THEN <<>>
    ELSE (IF text[1] \in {" ", ","} THEN <<>> ELSE <<text[1]>>)
             \o WithoutBlanksAndCommas(Tail(text))

\* the prompt holds a URL, and no URL of it holds a comma
C28_UrlWithoutComma ==
    /\ \E j \in 1 .. Len(sp_prompt) : SchemeAt(j)
    /\ \A k \in 1 .. Len(sp_prompt) : sp_prompt[k] = "," => ~InUrlSpan(k)

\* C28 as stated: for a prompt with a URL that holds no comma, the tasks
\* joined with "," are the prompt up to blanks.
C28_Original ==
    (sp_pc = "done" /\ C28_UrlWithoutComma) =>
        WithoutBlanks(JoinTasks(sp_tasks)) = WithoutBlanks(sp_prompt)

\* C28: for every prompt, the tasks joined with "," are the prompt up to
\* blanks when no segment between the splitting commas is blank, and in any
\* case up to blanks and commas: only blanks and the commas of empty
\* segments are lost.
C28_RoundTrip ==
    sp_pc = "done" =>
        /\ (\A n \in 1 .. (Len(sp_splits) + 1) : ~OnlyBlanks(Segment(n))) =>
              WithoutBlanks(JoinTasks(sp_tasks)) = WithoutBlanks(sp_prompt)
        /\ WithoutBlanksAndCommas(JoinTasks(sp_tasks)) =
               WithoutBlanksAndCommas(sp_prompt)

\* "http:// ,g": the URL has no comma, the comma after the blank splits,
\* and the tasks joined give the prompt but for the blank
C28_Witness ==
    /\ sp_pc = "done"
    /\ sp_prompt = <<"h", "t", "t", "p", ":", "/", "/", " ", ",", "g">>
    /\ C28_UrlWithoutComma
    /\ Len(sp_tasks) = 2
    /\ JoinTasks(sp_tasks) # sp_prompt
    /\ WithoutBlanks(JoinTasks(sp_tasks)) = WithoutBlanks(sp_prompt)

(***************************************************************************)
(* Further properties of schedule_task (SpecSched).                        *)
(***************************************************************************)
\* the trigger an expression of one of the three accepted forms stands for
C29_Trigger(interval) ==
    LET s == Normalised(interval)
    IN  IF s[1] = "daily"
        THEN [unit |-> "days", interval |-> 1, start_day |-> "", at_time |-> s[3]]
        ELSE IF Len(s) = 4
        THEN [unit |-> "weeks", interval |-> 1, start_day |-> s[2],
              at_time |-> s[4]]
        ELSE [unit |-> CASE s[3] \in {"minute", "minutes"} -> "minutes"
                         [] s[3] \in {"hour", "hours"} -> "hours"
                         [] s[3] \in {"day", "days"} -> "days",
              interval |-> IntOf(s[2]), start_day |-> "", at_time |-> ""]

\* the registry and the library's jobs after the n-th call
TasksAfter(n) ==
    IF n < Len(sc_calls) THEN sc_calls[n + 1].tasks_before ELSE sc_tasks

JobsAfter(n) ==
    IF n < Len(sc_calls) THEN sc_calls[n + 1].jobs_before ELSE sc_jobs

\* C29: with the schedule package present, every call of schedule_task with
\* an expression of one of the three accepted forms, in any case and with
\* blanks around, returned True, added exactly one job to the library, the
\* one of the kind, amount and unit (or time and weekday) of the expression,
\* and registered it under the given name; a weekday form gives a weekly
\* job, not an interval job.
C29_AcceptedFormsRegister ==
    \A n \in 1 .. Len(sc_calls) :
        (sc_installed /\ C20_AcceptedForm(sc_calls[n].interval)) =>
            /\ sc_calls[n].kind = "return"
            /\ sc_calls[n].value = TRUE
            /\ JobsAfter(n) = Append(sc_calls[n].jobs_before,
                                     C29_Trigger(sc_calls[n].interval))
            /\ TasksAfter(n) = [sc_calls[n].tasks_before EXCEPT
                                   ![sc_calls[n].task_name] =
                                       C29_Trigger(sc_calls[n].interval)]

\* "Every 1 Hour" and then "every monday at 09:00" under the same name: two
\* jobs in the library, an hourly and a weekly one, the weekly one
\* registered
C29_Witness ==
    /\ sc_installed
    /\ Len(sc_calls) = 2
    /\ sc_calls[1].interval = <<"Every", "1", "Hour">>
    /\ sc_calls[2].interval = <<"every", "monday", "at", "09:00">>
    /\ sc_calls[1].task_name = "t1"
    /\ sc_calls[2].task_name = "t1"
    /\ sc_calls[2].value = TRUE
    /\ Len(sc_jobs) = 2
    /\ sc_jobs[1].unit = "hours"
    /\ sc_jobs[2].unit = "weeks"
    /\ sc_tasks["t1"].start_day = "monday"
    /\ sc_tasks["t1"].at_time = "09:00"

C32_NothingInterpreted ==
    (executor = "_run_tasks" /\ retries = 0) =>
        /\ attempts = <<>>
        /\ fn_log = <<>>
        /\ results = <<>>
        /\ sent = <<>>

RaisedAt(log) == {k \in 1 .. Len(log) : log[k].kind = "raise"}

Greatest(S) == CHOOSE k \in S : \A j \in S : j <= k

\* the iteration that has just been made returned None
NoneReturned ==
    /\ rm_pc = "loop"
    /\ Len(fn_log') = Len(fn_log) + 1
    /\ fn_log'[Len(fn_log')] = Returns(None)

\* C33: an attempt that returns None does not end the loop and is followed
\* by no wait: the loop goes to the next attempt with the sleeps and the
\* recorded error unchanged.  When the call ends after a last attempt that
\* returned None, it returns None if no attempt raised and otherwise raises
\* the error of the latest attempt that raised.
C33_FalsyReturnGoesOn ==
    /\ [][NoneReturned =>
             /\ rm_pc' = "loop"
             /\ attempt' = attempt + 1
             /\ sleeps' = sleeps
             /\ last_error' = last_error]_vars
    /\ [](/\ RetryEnded
          /\ max_retries >= 0
          /\ fn_log # <<>>
          /\ fn_log[Len(fn_log)] = Returns(None)
          => /\ Len(fn_log) = max_retries + 1
             /\ IF RaisedAt(fn_log) = {}
                THEN rm_pc = "returned" /\ rm_out = None
                ELSE /\ rm_pc = "raised"
                     /\ rm_out = fn_log[Greatest(RaisedAt(fn_log))].value)

\* two attempts raised, the third returned None: the call raised the error
\* of the second attempt, after two waits
C33_Witness ==
    /\ rm_pc = "raised"
    /\ Len(fn_log) = 3
    /\ fn_log[1].kind = "raise"
    /\ fn_log[2].kind = "raise"
    /\ fn_log[3] = Returns(None)
    /\ rm_out = fn_log[2].value
    /\ rm_out # fn_log[1].value
    /\ Len(sleeps) = 2

(***************************************************************************)
(* The registry and the triggers (SpecSched, SpecLoop).                    *)
(***************************************************************************)
\* the calls of schedule_task that returned True
AcceptedCalls == {k \in 1 .. Len(sc_calls) : sc_calls[k].value = TRUE}

IsPrefix(a, b) == Len(a) <= Len(b) /\ SubSeq(b, 1, Len(a)) = a

AllTriggersInvoked ==
    /\ [](rl_pc = "sleep" =>
             \A j \in DOMAIN sc_jobs :
                 rl_now >= Period(sc_jobs[j]) =>
                     \E k \in DOMAIN rl_runs : rl_runs[k].job = j)
    /\ [][rl_pc # "off" => (sc_jobs' = sc_jobs /\ sc_tasks' = sc_tasks)]_vars

\* stop() is called before start()
EarlyStop == rl_pc = "off" /\ ~rl_stop.early /\ rl_stop'.early

\* C35: a stop() before start() changes neither the flag nor the state of
\* the loop; start(), with the schedule package present, sets the flag
\* whether or not stop() was called before; and the loop is left only after
\* a stop() that was called once start() had begun, so after an early
\* stop() alone the loop keeps running with the flag set.
C35_EarlyStopForgotten ==
    /\ [][EarlyStop => (is_running' = is_running /\ rl_pc' = rl_pc)]_vars
    /\ [][(rl_pc = "off" /\ rl_pc' # "off" /\ sc_installed) =>
             (is_running' /\ rl_pc' = "check")]_vars
    /\ []((rl_pc = "exited" /\ sc_installed) => StopCalled)
    /\ []((rl_pc \in {"check", "pending", "job", "sleep"} /\ ~StopCalled) =>
             is_running)

\* stop() came before start() and not since: the loop has invoked a job and
\* is asleep at the end of the time observed, the flag set
C35_Witness ==
    /\ rl_stop.early
    /\ ~StopCalled
    /\ is_running
    /\ rl_pc = "sleep"
    /\ rl_now = MaxTime
    /\ rl_runs # <<>>

\* C36: once the session block of _run_tasks has raised (its setup, the
\* screenshot after the loop or its teardown), the run is over with False,
\* no JSON artifact is written and no result is dispatched to the sinks,
\* whatever results were collected before.
C36_SessionErrorDropsResults ==
    (executor = "_run_tasks" /\ session_error) =>
        /\ ch_pc = "done"
        /\ ch_ret = "False"
        /\ artifact = None
        /\ sent = <<>>

\* both tasks of a chain succeeded, an artifact and a screenshot were asked
\* for, and the end of the session block raised: False, no artifact, nothing
\* sent
C36_Witness ==
    /\ executor = "_run_tasks"
    /\ session_error
    /\ ch_pc = "done"
    /\ json_output
    /\ screenshot
    /\ Len(expanded_tasks) = 2
    /\ Len(results) = 2
    /\ \A k \in 1 .. 2 : results[k].success
    /\ ch_ret = "False"
    /\ artifact = None
    /\ sent = <<>>

(***************************************************************************)
(* Further properties of execute_task (SpecInterp).                        *)
(***************************************************************************)
\* C37: a result of execute_task with success = false has task_type
\* "unknown", whatever pattern the prompt matched; a result with success =
\* true has task_type "unknown" only when the prompt is a conditional, the
\* only calls made were existence probes, and the result is the one of a
\* conditional that found no action to execute.
C37_UnknownType ==
    InterpDone =>
        LET r == it_out.value
            calls == it_out.calls
        IN  /\ ~r.success => r.task_type = "unknown"
            /\ (r.success /\ r.task_type = "unknown") =>
                  /\ IsConditional
                  /\ calls # <<>>
                  /\ \A k \in DOMAIN calls : calls[k].cap = "query_selector"
                  /\ r = NeutralResult(Exists(calls[Len(calls)]))

\* "click 'A'" matched the click pattern and the click raised: the result
\* is a failure of type unknown
C37_Witness ==
    /\ InterpDone
    /\ it_prompt = <<"click", "'A'">>
    /\ it_out.tried[Len(it_out.tried)] = "click"
    /\ Len(it_out.calls) = 1
    /\ it_out.calls[1].cap = "click"
    /\ it_out.calls[1].out = "raise"
    /\ ~it_out.value.success
    /\ it_out.value.task_type = "unknown"

(***************************************************************************)
(* Further properties of the prompt splitter (SpecSplit).                  *)
(***************************************************************************)
\* the characters scanned so far that raised the flag: a "/" after a ":"
FlagRaisedAt ==
    {j \in 2 .. (sp_i - 1) : sp_prompt[j] = "/" /\ sp_prompt[j - 1] = ":"}

\* the last comma before position j that ended a task, or 0
LastSplitBefore(j) ==
    LET before == {sp_splits[n] : n \in 1 .. Len(sp_splits)} \cap (1 .. j)
    IN  IF before = {} THEN 0 ELSE Greatest(before)

\* the text buffered when position j was reached
BufferedAt(j) == SubSeq(sp_prompt, LastSplitBefore(j) + 1, j - 1)

\* the iteration for the character at sp_i
Scanning == sp_pc = "scan" /\ sp_i <= Len(sp_prompt) /\ sp_i' = sp_i + 1

\* the flag is cleared only at a space that a character other than a space
\* follows, and only while current holds "http"
ClearedOnlyAtSpace ==
    [][(Scanning /\ sp_in_url /\ ~sp_in_url') =>
          /\ sp_prompt[sp_i] = " "
          /\ sp_i + 1 <= Len(sp_prompt)
          /\ sp_prompt[sp_i + 1] # " "
          /\ HasHttp(sp_current)]_vars

\* a comma scanned while the flag is set joins the current task
CommaKeptInUrl ==
    [][(Scanning /\ sp_in_url /\ sp_prompt[sp_i] = ",") =>
          /\ sp_in_url'
          /\ sp_current' = Append(sp_current, ",")
          /\ sp_tasks' = sp_tasks
          /\ sp_splits' = sp_splits]_vars

\* C38 as stated: the flag is cleared only at such a space, a comma scanned
\* while it is set does not split, and once it was raised with no "http" in
\* the text buffered before it, it is set for the rest of the prompt.
C38_Original ==
    /\ ClearedOnlyAtSpace
    /\ CommaKeptInUrl
    /\ [](\A j \in FlagRaisedAt : ~HasHttp(BufferedAt(j)) => sp_in_url)

\* C38: the flag is cleared only at a space that a character other than a
\* space follows and only while the buffered text holds "http"; a comma
\* scanned while the flag is set stays in the current task and splits
\* nothing off; and once raised the flag stays set for as long as the text
\* buffered since the last split holds no "http", which a later part of the
\* prompt can bring in, the host or the path of the URL included.
C38_FlagClearedOnlyWithHttp ==
    /\ ClearedOnlyAtSpace
    /\ CommaKeptInUrl
    /\ [](\A j \in FlagRaisedAt :
             (LastSplitBefore(sp_i) < j /\ ~HasHttp(sp_current)) => sp_in_url)

\* "g:// ,g": the scheme is not http, the space before the comma leaves the
\* flag set and the prompt is one task
C38_Witness ==
    /\ sp_pc = "done"
    /\ sp_prompt = <<"g", ":", "/", "/", " ", ",", "g">>
    /\ sp_in_url
    /\ sp_splits = <<>>
    /\ sp_tasks = <<sp_prompt>>

(***************************************************************************)
(* Properties of main and the expansion of the tasks (SpecMain).           *)
(***************************************************************************)
\* C39: _run_tasks expands the variables task by task: expanded_tasks has
\* the length of tasks and its k-th entry is the expansion of the k-th task,
\* whatever the values hold, commas included; and the tasks of a prompt are
\* the trimmed non-empty comma-separated pieces of the prompt as written,
\* which no variable enters.
C39_ExpandedPerTask ==
    mn_pc = "expanded" =>
        /\ Len(mn_expanded) = Len(mn_tasks)
        /\ \A k \in 1 .. Len(mn_tasks) :
              mn_expanded[k] = expand_variables(mn_tasks[k], mn_variables)
        /\ ~mn_load => mn_tasks = SplitTrimmed(SplitOn(sp_prompt, ","))

\* a workflow of two tasks with a = "g,g": two expanded tasks, with commas
C39_Witness ==
    /\ mn_pc = "expanded"
    /\ mn_load
    /\ mn_variables = <<[key |-> <<"a">>, value |-> <<"g", ",", "g">>]>>
    /\ mn_tasks = << <<"{", "a", "}">>, <<"g", "{", "a", "}">> >>
    /\ mn_expanded = << <<"g", ",", "g">>, <<"g", "g", ",", "g">> >>

(***************************************************************************)
(* The run loop after a rejected registration (SpecLoop).                  *)
(***************************************************************************)
\* schedule_task was called, the schedule package present, and every call
\* returned False
AllRejected ==
    /\ sc_installed
    /\ sc_calls # <<>>
    /\ \A k \in 1 .. Len(sc_calls) : sc_calls[k].value = FALSE

\* C40: after a schedule_task that returned False for an expression that
\* cannot be parsed, the schedule package present, start() enters its loop
\* all the same; the library has no job and the registry no name, no job is
\* ever invoked, and the loop keeps running with the flag set until stop()
\* is called: it is never left without one.
C40_LoopWithoutJobs ==
    /\ [](AllRejected =>
             /\ sc_jobs = <<>>
             /\ list_tasks = {}
             /\ rl_runs = <<>>
             /\ rl_pc \in {"off", "check", "pending", "sleep", "exited"}
             /\ (rl_pc # "off" /\ ~StopCalled) =>
                    (is_running /\ rl_pc # "exited")
             /\ rl_pc = "exited" => StopCalled)
    /\ [][(AllRejected /\ rl_pc = "off" /\ rl_pc' # "off") =>
             (rl_pc' = "check" /\ is_running')]_vars

\* "sometimes" was rejected and start() called: at the end of the time
\* observed the loop is still running, asleep, and has invoked nothing
C40_Witness ==
    /\ AllRejected
    /\ sc_calls[1].interval = <<"sometimes">>
    /\ sc_jobs = <<>>
    /\ rl_pc = "sleep"
    /\ rl_now = MaxTime
    /\ is_running
    /\ ~StopCalled
    /\ rl_runs = <<>>

============================================================================
